---- MODULE Spec2Model ----
(***************************************************************************)
(* Verification model of the rox interpreters (FreeMasen/rox):             *)
(*   - the tree-walk interpreter of src/src (Env, Func, Class, Method,     *)
(*     Interpreter),                                                       *)
(*   - the bytecode compiler and stack VM of src/roxc,                     *)
(*   - the tree-walk driver of src/roxi.                                   *)
(* Evaluation of an AST is recursive in the source and is modelled by      *)
(* RECURSIVE operators that thread the interpreter state; the drivers and  *)
(* the VM loop are modelled as actions.                                    *)
(***************************************************************************)
EXTENDS Integers, Sequences, FiniteSets, TLC

(***************************************************************************)
(* f64 numbers.  A number is a reduced fraction n/d with d >= 0; d = 0     *)
(* encodes the IEEE specials: 1/0 = +inf, -1/0 = -inf, 0/0 = NaN.          *)
(* (-0.0 is identified with 0.0.)                                          *)
(***************************************************************************)
Abs(x) == IF x < 0 THEN -x ELSE x

Sign(x) == IF x < 0 THEN -1 ELSE IF x = 0 THEN 0 ELSE 1

RECURSIVE Gcd(_, _)
Gcd(a, b) == IF b = 0 THEN a ELSE Gcd(b, a % b)

\* build the f64 for the fraction n/d (d may be negative or zero)
Frac(n, d) ==
  IF d = 0 THEN [n |-> Sign(n), d |-> 0]
  ELSE LET g == Gcd(Abs(n), Abs(d))
       IN  [n |-> (Sign(d) * n) \div g, d |-> Abs(d) \div g]

F64(n) == [n |-> n, d |-> 1]

IsNaN(a) == a.d = 0 /\ a.n = 0

\* impl Add for f64: l + r
F64Add(l, r) ==
  IF l.d = 0 /\ r.d = 0
  THEN (IF l.n = r.n THEN l ELSE [n |-> 0, d |-> 0])
  ELSE Frac(l.n * r.d + r.n * l.d, l.d * r.d)

\* impl Neg for f64: -n
F64Neg(a) == [n |-> -a.n, d |-> a.d]

\* impl Sub for f64: l - r
F64Sub(l, r) == F64Add(l, F64Neg(r))

\* impl Mul for f64: l * r
F64Mul(l, r) == Frac(l.n * r.n, l.d * r.d)

\* impl Div for f64: l / r (division by zero yields an infinity or NaN)
F64Div(l, r) == Frac(l.n * r.d, l.d * r.n)

\* impl PartialEq for f64: NaN is equal to nothing
F64Eq(l, r) == ~IsNaN(l) /\ ~IsNaN(r) /\ l = r

\* impl PartialOrd for f64: l < r (false when either is NaN)
F64Lt(l, r) ==
  IF IsNaN(l) \/ IsNaN(r) THEN FALSE
  ELSE IF l.d = 0 /\ r.d = 0 THEN l.n < r.n
  ELSE IF l.d = 0 THEN l.n < 0
  ELSE IF r.d = 0 THEN r.n > 0
  ELSE l.n * r.d < r.n * l.d

F64Gt(l, r) == F64Lt(r, l)

F64Le(l, r) == F64Lt(l, r) \/ F64Eq(l, r)

F64Ge(l, r) == F64Le(r, l)

\* impl Rem for f64: l % r, the remainder of the truncated division
F64Rem(l, r) ==
  IF l.d = 0 \/ IsNaN(r) \/ r.n = 0 THEN [n |-> 0, d |-> 0]
  ELSE IF r.d = 0 THEN l
  ELSE LET a == l.n * r.d
           b == Abs(r.n * l.d)
       IN  Frac(Sign(a) * (Abs(a) % b), l.d * r.d)

(***************************************************************************)
(* Values of the tree-walk interpreter (src/src/value.rs).                 *)
(***************************************************************************)
Number(n) == [t |-> "Number", n |-> F64(n)]

NumberF(f) == [t |-> "Number", n |-> f]

StringV(s) == [t |-> "String", s |-> s]

Bool(b) == [t |-> "Bool", b |-> b]

Nil == [t |-> "Nil"]

NativeFunc(name) == [t |-> "NativeFunc", name |-> name]

EmptyMap == [x \in {} |-> Nil]

\* HashMap::insert
MapInsert(m, k, v) == [x \in DOMAIN m \cup {k} |-> IF x = k THEN v ELSE m[x]]

Last(s) == s[Len(s)]

Front(s) == SubSeq(s, 1, Len(s) - 1)

(***************************************************************************)
(* Env (src/src/env.rs): a chain of frames.  The chain is kept as a        *)
(* sequence, outermost frame first; the last element is `self`, and        *)
(* `enclosing` of element i is element i-1.                                *)
(***************************************************************************)
EnvNew(depth) == [values |-> EmptyMap, depth |-> depth]

EnvGlobal ==
  [values |-> MapInsert(MapInsert(EmptyMap, "clock", NativeFunc("clock")),
                        "mod", NativeFunc("mod")),
   depth |-> 0]

EnvRoot == <<EnvGlobal, EnvNew(1)>>

EnvDepth(env) == Last(env).depth

EnvDescend(env) == Append(env, EnvNew(EnvDepth(env) + 1))

\* Ok(old child) with self replaced by the parent, or Err with self
\* unchanged when there is no parent
EnvAscendOutOf(env) ==
  IF Len(env) > 1
  THEN [ok |-> TRUE, env |-> Front(env), child |-> Last(env)]
  ELSE [ok |-> FALSE, env |-> env, child |-> Last(env)]

\* a revert_to that returns the removed frames with the nearest child first
RECURSIVE EnvRevertLoopNearestFirst(_, _, _)
EnvRevertLoopNearestFirst(env, depth, envs) ==
  IF EnvDepth(env) > depth
  THEN LET r == EnvAscendOutOf(env)
       IN  IF r.ok THEN EnvRevertLoopNearestFirst(r.env, depth, <<r.child>> \o envs)
           ELSE [ok |-> FALSE, env |-> env, envs |-> envs]
  ELSE [ok |-> TRUE, env |-> env, envs |-> envs]

RECURSIVE EnvRevertLoop(_, _, _)
EnvRevertLoop(env, depth, envs) ==
  IF EnvDepth(env) > depth
  THEN LET r == EnvAscendOutOf(env)
       IN  IF r.ok THEN EnvRevertLoop(r.env, depth, Append(envs, r.child))
           ELSE [ok |-> FALSE, env |-> env, envs |-> envs]
  ELSE [ok |-> TRUE, env |-> env, envs |-> envs]

EnvRevertTo(env, depth) == EnvRevertLoop(env, depth, <<>>)

EnvDescendInto(env, enc) == Append(env, enc)

EnvAscend(env) == IF Len(env) > 1 THEN Front(env) ELSE env

EnvDefine(env, s, val) ==
  [env EXCEPT ![Len(env)].values = MapInsert(@, s, val)]

\* index of the frame in which get/get_mut find `s` when started at frame i,
\* or 0 when the name is not defined: a frame deeper than `depth` hands over
\* to its enclosing frame when it has one, any other frame answers when it
\* holds the name and hands over otherwise
EnvFind(env, i, s, depth) ==
  LET found == {j \in 1..i : /\ ~(env[j].depth > depth /\ j > 1)
                             /\ s \in DOMAIN env[j].values}
  IN  IF found = {} THEN 0 ELSE CHOOSE j \in found : \A k \in found : k <= j

EnvGet(env, s, depth) ==
  LET i == EnvFind(env, Len(env), s, depth)
  IN  IF i = 0 THEN [ok |-> FALSE, v |-> Nil]
      ELSE [ok |-> TRUE, v |-> env[i].values[s]]

EnvAssign(env, s, new) ==
  LET i == EnvFind(env, Len(env), s, EnvDepth(env))
  IN  IF i = 0 THEN [ok |-> FALSE, env |-> env]
      ELSE [ok |-> TRUE, env |-> [env EXCEPT ![i].values[s] = new]]

(***************************************************************************)
(* AST (src/src/expr.rs, src/src/stmt.rs).                                 *)
(***************************************************************************)
Literal(v) == [k |-> "Literal", v |-> v]

Var(name) == [k |-> "Var", name |-> name]

Assign(name, value) == [k |-> "Assign", name |-> name, value |-> value]

Binary(left, op, right) == [k |-> "Binary", left |-> left, op |-> op, right |-> right]

Unary(op, right) == [k |-> "Unary", op |-> op, right |-> right]

Grouping(inner) == [k |-> "Grouping", inner |-> inner]

Log(left, op, right) == [k |-> "Log", left |-> left, op |-> op, right |-> right]

Call(callee, arguments) == [k |-> "Call", callee |-> callee, arguments |-> arguments]

Get(object, name) == [k |-> "Get", object |-> object, name |-> name]

Set(object, name, value) == [k |-> "Set", object |-> object, name |-> name, value |-> value]

This == [k |-> "This"]

PrintS(e) == [k |-> "Print", e |-> e]

ExprS(e) == [k |-> "Expr", e |-> e]

VarS(name, value) == [k |-> "Var", name |-> name, has |-> TRUE, value |-> value]

VarNone(name) == [k |-> "Var", name |-> name, has |-> FALSE, value |-> Literal(Nil)]

Block(list) == [k |-> "Block", list |-> list]

If(test, cons) == [k |-> "If", test |-> test, cons |-> cons, has |-> FALSE, alt |-> cons]

IfElse(test, cons, alt) == [k |-> "If", test |-> test, cons |-> cons, has |-> TRUE, alt |-> alt]

While(test, body) == [k |-> "While", test |-> test, body |-> body]

Function(name, params, body) == [name |-> name, params |-> params, body |-> body]

FuncS(name, params, body) == [k |-> "Func", f |-> Function(name, params, body)]

Return(e) == [k |-> "Return", has |-> TRUE, e |-> e]

ReturnNone == [k |-> "Return", has |-> FALSE, e |-> Literal(Nil)]

ClassS(name, methods) == [k |-> "Class", name |-> name, methods |-> methods]

(***************************************************************************)
(* Results of evaluation: Ok(v), Err(Error::Runtime) or                    *)
(* Err(Error::Return(v)), together with the interpreter state after it.    *)
(***************************************************************************)
Ok(st, v) == [st |-> st, t |-> "Ok", v |-> v]

RuntimeErr(st, msg) == [st |-> st, t |-> "Runtime", v |-> StringV(msg)]

ReturnErr(st, v) == [st |-> st, t |-> "Return", v |-> v]

\* value of clock(); the wall clock is outside the model
ClockNow == 1000

IsTruthy(lit) ==
  CASE lit.t = "Nil" -> FALSE
    [] lit.t = "Bool" -> lit.b
    [] OTHER -> TRUE

IsEqual(lhs, rhs) ==
  CASE lhs.t = "Nil" /\ rhs.t = "Nil" -> TRUE
    [] lhs.t = "String" /\ rhs.t = "String" -> lhs.s = rhs.s
    [] lhs.t = "Number" /\ rhs.t = "Number" -> F64Eq(lhs.n, rhs.n)
    [] lhs.t = "Bool" /\ rhs.t = "Bool" -> lhs.b = rhs.b
    [] OTHER -> FALSE

\* the match of visit_bin
BinOp(op, left, right) ==
  LET nums == left.t = "Number" /\ right.t = "Number"
  IN  CASE op = "Minus" /\ nums -> [ok |-> TRUE, v |-> NumberF(F64Sub(left.n, right.n))]
        [] op = "Slash" /\ nums -> [ok |-> TRUE, v |-> NumberF(F64Div(left.n, right.n))]
        [] op = "Star" /\ nums -> [ok |-> TRUE, v |-> NumberF(F64Mul(left.n, right.n))]
        [] op = "Plus" /\ nums -> [ok |-> TRUE, v |-> NumberF(F64Add(left.n, right.n))]
        [] op = "Greater" /\ nums -> [ok |-> TRUE, v |-> Bool(F64Gt(left.n, right.n))]
        [] op = "GreaterEqual" /\ nums -> [ok |-> TRUE, v |-> Bool(F64Ge(left.n, right.n))]
        [] op = "Less" /\ nums -> [ok |-> TRUE, v |-> Bool(F64Lt(left.n, right.n))]
        [] op = "LessEqual" /\ nums -> [ok |-> TRUE, v |-> Bool(F64Le(left.n, right.n))]
        [] op = "Plus" /\ left.t = "String" /\ right.t = "String"
             -> [ok |-> TRUE, v |-> StringV(left.s \o right.s)]
        [] op = "EqualEqual" -> [ok |-> TRUE, v |-> Bool(IsEqual(left, right))]
        [] op = "BangEqual" -> [ok |-> TRUE, v |-> Bool(~IsEqual(left, right))]
        [] OTHER -> [ok |-> FALSE, v |-> Nil]

\* the match of visit_un
UnOp(op, right) ==
  CASE op = "Minus" /\ right.t = "Number" -> [ok |-> TRUE, v |-> NumberF(F64Neg(right.n))]
    [] op = "Plus" /\ right.t = "Number" -> [ok |-> TRUE, v |-> right]
    [] op = "Bang" -> [ok |-> TRUE, v |-> Bool(~IsTruthy(right))]
    [] OTHER -> [ok |-> FALSE, v |-> Nil]

\* the loop of visit_assign / visit_var_stmt that renames this_name
SetThisName(val, name) ==
  IF val.t = "Class"
  THEN [val EXCEPT !.methods = [m \in DOMAIN @ |-> [@[m] EXCEPT !.this_name = name]]]
  ELSE val

\* ClassInstance::get
InstanceGet(inst, key) ==
  IF key \in DOMAIN inst.fields THEN [ok |-> TRUE, v |-> inst.fields[key]]
  ELSE IF key \in DOMAIN inst.methods THEN [ok |-> TRUE, v |-> inst.methods[key]]
  ELSE [ok |-> FALSE, v |-> Nil]

\* ClassInstance::set
InstanceSet(inst, key, value) == [inst EXCEPT !.fields = MapInsert(@, key, value)]

\* Callable::arity of Func, Class, NativeFunc and Method
Arity(f) ==
  CASE f.t = "Func" -> Len(f.params)
    [] f.t = "Init" -> 0
    [] f.t = "NativeFunc" -> (IF f.name = "mod" THEN 2 ELSE 0)
    [] f.t = "Method" -> Len(f.func.params)

\* the zip of params and args followed by define
RECURSIVE DefineParams(_, _, _, _)
DefineParams(env, params, args, i) ==
  IF i > Len(params) \/ i > Len(args) THEN env
  ELSE DefineParams(EnvDefine(env, params[i], args[i]), params, args, i + 1)

\* a place an &mut Value points to: frame i, variable name, then a path of
\* instance fields
RECURSIVE PlaceGet(_, _)
PlaceGet(v, path) ==
  IF path = <<>> THEN v ELSE PlaceGet(v.fields[Head(path)], Tail(path))

RECURSIVE PlaceSet(_, _, _)
PlaceSet(v, path, new) ==
  IF path = <<>> THEN new
  ELSE [v EXCEPT !.fields[Head(path)] = PlaceSet(@, Tail(path), new)]

(***************************************************************************)
(* The tree-walk interpreter (src/src/interpreter.rs, func.rs, class.rs).  *)
(* The interpreter state st has the fields of struct Interpreter (env,     *)
(* closures, recur, current_depth), the printed values (out) and a history *)
(* of the calls made through handle_callable (calls).                      *)
(***************************************************************************)
RECURSIVE Evaluate(_, _), EvaluateMut(_, _), EvalArgs(_, _, _, _),
          Interpret(_, _), ExecList(_, _, _), ExecuteBlock(_, _),
          WhileLoop(_, _, _), HandleCallable(_, _, _),
          FuncCall(_, _, _), ClassCall(_, _, _), MethodCall(_, _, _)

VisitBin(e, st) ==
  LET l == Evaluate(e.left, st)
      r == Evaluate(e.right, l.st)
      b == BinOp(e.op, l.v, r.v)
  IN  CASE l.t # "Ok" -> l
        [] l.t = "Ok" /\ r.t # "Ok" -> r
        [] l.t = "Ok" /\ r.t = "Ok" /\ b.ok -> Ok(r.st, b.v)
        [] OTHER -> RuntimeErr(r.st, "Invalid binary operation")

VisitUn(e, st) ==
  LET r == Evaluate(e.right, st)
  IN  IF r.t # "Ok" THEN r
      ELSE LET u == UnOp(e.op, r.v)
           IN  IF u.ok THEN Ok(r.st, u.v)
               ELSE RuntimeErr(r.st, "Invalid unary operation")

VisitVar(e, st) ==
  LET g == EnvGet(st.env, e.name, EnvDepth(st.env))
  IN  IF g.ok THEN Ok(st, g.v) ELSE RuntimeErr(st, "variable is not yet defined")

VisitAssign(e, st) ==
  LET r == Evaluate(e.value, st)
  IN  IF r.t # "Ok" THEN r
      ELSE LET val == SetThisName(r.v, e.name)
               a == EnvAssign(r.st.env, e.name, val)
           IN  IF a.ok THEN Ok([r.st EXCEPT !.env = a.env], val)
               ELSE RuntimeErr(r.st, "variable is not yet defined")

VisitLog(e, st) ==
  LET l == Evaluate(e.left, st)
  IN  IF l.t # "Ok" THEN l
      ELSE IF e.op = "Or" /\ IsTruthy(l.v) THEN Ok(l.st, Bool(TRUE))
      ELSE IF e.op = "Or" \/ (e.op = "And" /\ IsTruthy(l.v))
      THEN LET r == Evaluate(e.right, l.st)
           IN  IF r.t # "Ok" THEN r ELSE Ok(r.st, Bool(IsTruthy(r.v)))
      ELSE Ok(l.st, Bool(FALSE))

VisitCall(e, st) ==
  LET old_depth == st.current_depth
      c == Evaluate(e.callee, st)
      a == EvalArgs(e.arguments, 1, c.st, <<>>)
  IN  CASE c.t # "Ok" -> c
        [] c.t = "Ok" /\ a.t # "Ok" -> a
        [] c.t = "Ok" /\ a.t = "Ok" /\ c.v.t \in {"Func", "Init", "NativeFunc", "Method"} ->
             [HandleCallable(c.v, a.v, a.st) EXCEPT !.st.current_depth = old_depth]
        [] OTHER ->
             RuntimeErr([a.st EXCEPT !.current_depth = old_depth],
                        "Attempt to call a something that is not a function")

VisitGet(e, st) ==
  LET o == Evaluate(e.object, st)
  IN  IF o.t # "Ok" THEN o
      ELSE IF o.v.t = "Class"
      THEN LET g == InstanceGet(o.v, e.name)
           IN  IF g.ok THEN Ok(o.st, g.v) ELSE RuntimeErr(o.st, "Undefined propety")
      ELSE RuntimeErr(o.st, "cannot find property")

VisitSet(e, st) ==
  LET v == Evaluate(e.value, st)
  IN  IF v.t # "Ok" THEN v
      ELSE LET m == EvaluateMut(e.object, v.st)
           IN  IF ~m.ok THEN RuntimeErr(v.st, m.msg)
               ELSE LET cur == PlaceGet(v.st.env[m.i].values[m.name], m.path)
                    IN  IF cur.t = "Class"
                        THEN Ok([v.st EXCEPT !.env[m.i].values[m.name] =
                                   PlaceSet(@, m.path, InstanceSet(cur, e.name, v.v))], v.v)
                        ELSE Ok(v.st, v.v)

VisitThis(e, st) ==
  LET g == EnvGet(st.env, "this", st.current_depth)
  IN  IF g.ok THEN Ok(st, g.v) ELSE RuntimeErr(st, "variable is not yet defined")

Evaluate(e, st) ==
  CASE e.k = "Binary" -> VisitBin(e, st)
    [] e.k = "Grouping" -> Evaluate(e.inner, st)
    [] e.k = "Literal" -> Ok(st, e.v)
    [] e.k = "Unary" -> VisitUn(e, st)
    [] e.k = "Var" -> VisitVar(e, st)
    [] e.k = "Assign" -> VisitAssign(e, st)
    [] e.k = "Log" -> VisitLog(e, st)
    [] e.k = "Call" -> VisitCall(e, st)
    [] e.k = "Get" -> VisitGet(e, st)
    [] e.k = "Set" -> VisitSet(e, st)
    [] e.k = "This" -> VisitThis(e, st)

\* the place of the &mut Value, or the runtime error
EvaluateMut(e, st) ==
  CASE e.k = "Var" ->
         LET i == EnvFind(st.env, Len(st.env), e.name, st.current_depth)
         IN  IF i = 0 THEN [ok |-> FALSE, msg |-> "variable is not yet defined"]
             ELSE [ok |-> TRUE, i |-> i, name |-> e.name, path |-> <<>>]
    [] e.k = "Get" ->
         LET m == EvaluateMut(e.object, st)
         IN  IF ~m.ok THEN m
             ELSE LET cur == PlaceGet(st.env[m.i].values[m.name], m.path)
                  IN  IF cur.t # "Class"
                      THEN [ok |-> FALSE, msg |-> "Invalid left hand side of assignment"]
                      ELSE IF e.name \in DOMAIN cur.fields
                      THEN [m EXCEPT !.path = Append(@, e.name)]
                      ELSE [ok |-> FALSE, msg |-> "Undefined propety"]
    [] e.k = "This" ->
         LET i == EnvFind(st.env, Len(st.env), "this", st.current_depth)
         IN  IF i = 0 THEN [ok |-> FALSE, msg |-> "variable is not yet defined"]
             ELSE [ok |-> TRUE, i |-> i, name |-> "this", path |-> <<>>]
    [] OTHER -> [ok |-> FALSE, msg |-> "Invalid left hand side of assignment"]

\* arguments.iter().map(|e| self.evaluate(e)).collect()?
EvalArgs(arguments, i, st, acc) ==
  IF i > Len(arguments) THEN Ok(st, acc)
  ELSE LET r == Evaluate(arguments[i], st)
       IN  IF r.t # "Ok" THEN r
           ELSE EvalArgs(arguments, i + 1, r.st, Append(acc, r.v))

VisitVarStmt(s, st) ==
  LET Define(r) ==
        IF r.t = "Runtime" THEN r
        ELSE Ok([r.st EXCEPT !.env = EnvDefine(@, s.name, SetThisName(r.v, s.name))], Nil)
  IN  IF s.has THEN Define(Evaluate(s.value, st))
      ELSE Ok([st EXCEPT !.env = EnvDefine(@, s.name, Nil)], Nil)

VisitPrintStmt(s, st) ==
  LET Println(r) == IF r.t # "Ok" THEN r ELSE Ok([r.st EXCEPT !.out = Append(@, r.v)], Nil)
  IN  Println(Evaluate(s.e, st))

VisitExprStmt(s, st) ==
  LET Unit(r) == IF r.t # "Ok" THEN r ELSE Ok(r.st, Nil)
  IN  Unit(Evaluate(s.e, st))

VisitIfStmt(s, st) ==
  LET Branch(boolean) ==
        IF boolean.t # "Ok" THEN boolean
        ELSE IF IsTruthy(boolean.v) THEN Interpret(s.cons, boolean.st)
        ELSE IF s.has THEN Interpret(s.alt, boolean.st)
        ELSE Ok(boolean.st, Nil)
  IN  Branch(Evaluate(s.test, st))

\* while Self::is_truthy(&self.evaluate(test)?) { self.interpret(body)?; }
WhileLoop(test, body, st) ==
  LET Again(r) == IF r.t # "Ok" THEN r ELSE WhileLoop(test, body, r.st)
      Turn(b) ==
        IF b.t # "Ok" THEN b
        ELSE IF IsTruthy(b.v) THEN Again(Interpret(body, b.st))
        ELSE Ok(b.st, Nil)
  IN  Turn(Evaluate(test, st))

VisitFuncDecl(s, st) ==
  LET func == [t |-> "Func", name |-> s.f.name, params |-> s.f.params,
               body |-> s.f.body, env_id |-> EnvDepth(st.env) + 1]
      env == EnvDefine(st.env, s.f.name, func)
  IN  Ok([st EXCEPT !.env = env, !.closures = Append(@, env)], Nil)

\* Err(Error::Return(self.evaluate(e)?))
VisitReturnStmt(s, st) ==
  IF s.has
  THEN [Evaluate(s.e, st) EXCEPT !.t = IF @ = "Ok" THEN "Return" ELSE @]
  ELSE ReturnErr(st, Nil)

VisitClass(s, st) ==
  LET class == [name |-> s.name, methods |-> s.methods]
      a == EnvAssign(EnvDefine(st.env, s.name, Nil), s.name, [t |-> "Init", class |-> class])
  IN  Ok([st EXCEPT !.env = a.env], Nil)

Interpret(s, st) ==
  LET st1 == [st EXCEPT !.recur = @ + 1]
      ret == CASE s.k = "Print" -> VisitPrintStmt(s, st1)
               [] s.k = "Expr" -> VisitExprStmt(s, st1)
               [] s.k = "Var" -> VisitVarStmt(s, st1)
               [] s.k = "Block" -> ExecuteBlock(s.list, st1)
               [] s.k = "If" -> VisitIfStmt(s, st1)
               [] s.k = "While" -> WhileLoop(s.test, s.body, st1)
               [] s.k = "Func" -> VisitFuncDecl(s, st1)
               [] s.k = "Return" -> VisitReturnStmt(s, st1)
               [] s.k = "Class" -> VisitClass(s, st1)
  IN  [ret EXCEPT !.st.recur = IF @ > 0 THEN @ - 1 ELSE 0]

\* the for loop of execute_block through statement i
ExecList(stmts, i, st) ==
  IF i <= 0 THEN Ok(st, Nil)
  ELSE LET r == ExecList(stmts, i - 1, st)
       IN  IF r.t # "Ok" THEN r ELSE Interpret(stmts[i], r.st)

ExecuteBlock(stmts, st) ==
  LET old_depth == st.current_depth
      env == EnvDescend(st.env)
      \* the loop through the last statement but one, then the last one
      LastOne(p) == IF stmts = <<>> \/ p.t # "Ok" THEN p ELSE Interpret(Last(stmts), p.st)
      Ascend(r) == [r EXCEPT !.st.env = EnvAscend(@),
                             !.st.current_depth = IF r.t = "Ok" THEN old_depth ELSE @]
  IN  Ascend(LastOne(ExecList(stmts, Len(stmts) - 1,
                              [st EXCEPT !.env = env, !.current_depth = EnvDepth(env)])))

\* a Func::call that binds the parameters in the frame of its caller
FuncCallInCallerFrame(f, args, st) ==
  LET env == EnvDescend(DefineParams(st.env, f.params, args, 1))
      Ret(b) == [b EXCEPT !.t = IF @ = "Return" THEN "Ok" ELSE @,
                          !.st.env = EnvAscend(@),
                          !.st.current_depth = EnvDepth(EnvAscend(b.st.env))]
  IN  Ret(ExecuteBlock(f.body, [st EXCEPT !.env = env]))

\* impl Callable for Func
FuncCall(f, args, st) ==
  LET env == DefineParams(EnvDescend(st.env), f.params, args, 1)
      Ret(b) == [b EXCEPT !.t = IF @ = "Return" THEN "Ok" ELSE @,
                          !.st.env = EnvAscend(@),
                          !.st.current_depth = EnvDepth(EnvAscend(b.st.env))]
  IN  Ret(ExecuteBlock(f.body, [st EXCEPT !.env = env]))

\* a Method::call that does not assign the updated `this` to this_name
MethodCallNoWriteBack(m, args, st) ==
  LET this == EnvGet(st.env, m.this_name, m.this_depth)
  IN  IF ~this.ok THEN RuntimeErr(st, "variable is not yet defined")
      ELSE
      LET env0 == EnvDescend(st.env)
          env == DefineParams(EnvDefine(env0, "this", this.v), m.func.params, args, 1)
      IN  [ExecuteBlock(m.func.body,
                        [st EXCEPT !.env = env, !.current_depth = EnvDepth(env0)])
             EXCEPT !.t = IF @ = "Return" THEN "Ok" ELSE @,
                    !.st.env = EnvAscend(@)]

\* impl Callable for Method
MethodCall(m, args, st) ==
  LET this == EnvGet(st.env, m.this_name, m.this_depth)
  IN  IF ~this.ok THEN RuntimeErr(st, "variable is not yet defined")
      ELSE
      LET env0 == EnvDescend(st.env)
          env == DefineParams(EnvDefine(env0, "this", this.v), m.func.params, args, 1)
          Ret(b) ==
            LET ret == CASE b.t = "Ok" -> Ok(b.st, Nil)
                         [] b.t = "Return" -> Ok(b.st, b.v)
                         [] OTHER -> b
                updated_this == EnvGet(b.st.env, "this", b.st.current_depth)
                env2 == EnvAscend(b.st.env)
                a == EnvAssign(env2, m.this_name, updated_this.v)
            IN  CASE ~updated_this.ok -> RuntimeErr(b.st, "variable is not yet defined")
                  [] updated_this.ok /\ ~a.ok ->
                       RuntimeErr([b.st EXCEPT !.env = env2], "variable is not yet defined")
                  [] OTHER -> [ret EXCEPT !.st.env = a.env]
      IN  Ret(ExecuteBlock(m.func.body,
                           [st EXCEPT !.env = env, !.current_depth = EnvDepth(env0)]))

\* the methods built by Class::call from the declarations, without init
ClassMethods(defs, current_depth) ==
  LET names == {defs[i].name : i \in 1..Len(defs)} \ {"init"}
      \* HashMap::insert keeps the last declaration of a name
      last(n) == CHOOSE i \in 1..Len(defs) :
                   defs[i].name = n /\ \A j \in (i + 1)..Len(defs) : defs[j].name # n
  IN  [n \in names |->
         [t |-> "Method",
          func |-> [t |-> "Func", name |-> n, params |-> defs[last(n)].params,
                    body |-> defs[last(n)].body, env_id |-> current_depth + 1],
          this_depth |-> current_depth,
          this_name |-> ""]]

\* impl Callable for Class
ClassCall(c, args, st) ==
  LET defs == c.class.methods
      methods == ClassMethods(defs, st.current_depth)
      inits == {i \in 1..Len(defs) : defs[i].name = "init"}
      ret == [t |-> "Class", class |-> c.class, fields |-> EmptyMap, methods |-> methods]
  IN  IF inits # {}
      THEN LET d == defs[CHOOSE i \in inits : \A j \in inits : j <= i]
               env0 == EnvDescend(st.env)
               init == [t |-> "Method",
                        func |-> [t |-> "Func", name |-> "init", params |-> d.params,
                                  body |-> d.body, env_id |-> st.current_depth + 1],
                        this_depth |-> EnvDepth(env0),
                        this_name |-> "*"]
               prev_depth == st.current_depth
               Updated(r) ==
                 LET updated == EnvGet(r.st.env, "*", EnvDepth(r.st.env))
                 IN  CASE r.t # "Ok" -> r
                       [] r.t = "Ok" /\ ~updated.ok ->
                            RuntimeErr(r.st, "variable is not yet defined")
                       [] OTHER -> Ok([r.st EXCEPT !.env = EnvAscend(@),
                                                   !.current_depth = prev_depth], updated.v)
           IN  Updated(MethodCall(init, args,
                                  [st EXCEPT !.env = EnvDefine(env0, "*", ret),
                                             !.current_depth = EnvDepth(env0)]))
      ELSE Ok(st, ret)

\* impl Callable for NativeFunc (Clock, Mod)
NativeCall(f, args, st) ==
  IF f.name = "clock" THEN Ok(st, Number(ClockNow))
  ELSE IF Len(args) >= 2 /\ args[1].t = "Number" /\ args[2].t = "Number"
  THEN Ok(st, NumberF(F64Rem(args[1].n, args[2].n)))
  ELSE RuntimeErr(st, "invalid arguments provided to mod")

\* a handle_callable without the comparison of arity and arguments.len()
HandleCallableNoArity(f, args, st) ==
  LET Ret(c) ==
        [c EXCEPT !.t = IF @ = "Return" THEN "Ok" ELSE @,
                  !.st.calls = Append(@,
                    [kind |-> f.t, f |-> f, args |-> args, entered |-> TRUE, exit |-> c.t,
                     envIn |-> st.env, envOut |-> c.st.env])]
  IN  Ret(CASE f.t = "Func" -> FuncCall(f, args, st)
            [] f.t = "Init" -> ClassCall(f, args, st)
            [] f.t = "NativeFunc" -> NativeCall(f, args, st)
            [] f.t = "Method" -> MethodCall(f, args, st))

HandleCallable(f, args, st) ==
  IF Arity(f) # Len(args)
  THEN RuntimeErr([st EXCEPT !.calls = Append(@,
                     [kind |-> f.t, f |-> f, args |-> args, entered |-> FALSE, exit |-> "Runtime",
                      envIn |-> st.env, envOut |-> st.env])],
                  "wrong number of arguments")
  ELSE LET Ret(c) ==
             [c EXCEPT !.t = IF @ = "Return" THEN "Ok" ELSE @,
                       !.st.calls = Append(@,
                         [kind |-> f.t, f |-> f, args |-> args, entered |-> TRUE, exit |-> c.t,
                          envIn |-> st.env, envOut |-> c.st.env])]
       IN  Ret(CASE f.t = "Func" -> FuncCall(f, args, st)
                 [] f.t = "Init" -> ClassCall(f, args, st)
                 [] f.t = "NativeFunc" -> NativeCall(f, args, st)
                 [] f.t = "Method" -> MethodCall(f, args, st))

\* Interpreter::new
NewInterpreter ==
  [env |-> EnvRoot, closures |-> <<>>, recur |-> 0, current_depth |-> EnvDepth(EnvRoot),
   out |-> <<>>, calls |-> <<>>]

(***************************************************************************)
(* Bounds of the inputs.                                                   *)
(***************************************************************************)
MaxFib == 7

MaxCalls == 3

MaxVal == 2

(***************************************************************************)
(* Programs run by the tree-walk interpreter, as the parser produces them. *)
(***************************************************************************)
Num(n) == Literal(Number(n))

Str(s) == Literal(StringV(s))

\* the values written as literals in the programs
ArgValues == <<Number(0), Number(1), Number(MaxVal), StringV("hahah"), Bool(TRUE), Nil>>

\* var test = 0; fun makeCounter() { var i = 0; fun count() { i = i + 1;
\* return i; } return count; } var counter = makeCounter();
\* test = counter();  (n times)               -- func.rs, test nested_funcs
CounterProgram(n) ==
  <<VarS("test", Num(0)),
    FuncS("makeCounter", <<>>,
          <<VarS("i", Num(0)),
            FuncS("count", <<>>,
                  <<ExprS(Assign("i", Binary(Var("i"), "Plus", Num(1)))),
                    Return(Var("i"))>>),
            Return(Var("count"))>>),
    VarS("counter", Call(Var("makeCounter"), <<>>))>>
  \o [i \in 1..n |-> ExprS(Assign("test", Call(Var("counter"), <<>>)))]

\* fun fib(n) { if (n < 2) return n; return fib(n - 1) + fib(n - 2); }
\* var test = fib(n);                         -- roxi func.rs, test recursive
FibProgram(n) ==
  <<FuncS("fib", <<"n">>,
          <<If(Binary(Var("n"), "Less", Num(2)), Return(Var("n"))),
            Return(Binary(Call(Var("fib"), <<Binary(Var("n"), "Minus", Num(1))>>),
                          "Plus",
                          Call(Var("fib"), <<Binary(Var("n"), "Minus", Num(2))>>)))>>),
    VarS("test", Call(Var("fib"), <<Num(n)>>))>>

\* class Junk { stuff() { print "stuff"; } things(one) { this.one = one; } }
\* var other = 7; var junk = Junk(); junk.things(v); print junk.one;
\*                                            -- interpreter.rs, test this
JunkClass ==
  ClassS("Junk",
         <<Function("stuff", <<>>, <<PrintS(Str("stuff"))>>),
           Function("things", <<"one">>, <<ExprS(Set(This, "one", Var("one")))>>)>>)

ThisProgram(v, inBlock) ==
  LET body == <<VarS("other", Num(7)),
                VarS("junk", Call(Var("Junk"), <<>>)),
                ExprS(Call(Get(Var("junk"), "things"), <<Literal(v)>>)),
                PrintS(Get(Var("junk"), "one"))>>
  IN  IF inBlock THEN <<JunkClass, Block(body)>> ELSE <<JunkClass>> \o body

\* class A { init(x1..xn) { this.x = <x1 or 1>; } get() { return this.x; } }
\* var a = A(v, .. (m times)); print a.get();
ParamNames == <<"x", "y">>

InitProgram(n, m, v) ==
  <<ClassS("A",
           <<Function("init", SubSeq(ParamNames, 1, n),
                      <<ExprS(Set(This, "x", IF n > 0 THEN Var("x") ELSE Num(1)))>>),
             Function("get", <<>>, <<Return(Get(This, "x"))>>)>>),
    VarS("a", Call(Var("A"), [i \in 1..m |-> Literal(v)])),
    PrintS(Call(Get(Var("a"), "get"), <<>>))>>

\* class B { init() { this.x = 1; <exit>; } }  var b = B(); var c = 1;
\* where <exit> is nothing, `return;` in a block, or a failing expression
InitExitProgram(exit) ==
  <<ClassS("B",
           <<Function("init", <<>>,
                      <<ExprS(Set(This, "x", Num(1)))>>
                      \o (CASE exit = "normal" -> <<>>
                            [] exit = "return" -> <<Block(<<If(Literal(Bool(TRUE)), ReturnNone)>>)>>
                            [] exit = "error" -> <<ExprS(Var("undefined"))>>))>>),
    VarS("b", Call(Var("B"), <<>>)),
    VarS("c", Num(1))>>

\* fun g(n) { var l = n; { if (n > 0) { return 1; } } <tail> return 2; }
\* { var r = g(v); } var done = true;
\* where <tail> is nothing or a failing expression
ExitProgram(v, fails) ==
  <<FuncS("g", <<"n">>,
          <<VarS("l", Var("n")),
            Block(<<If(Binary(Var("n"), "Greater", Num(0)), Block(<<Return(Num(1))>>))>>)>>
          \o (IF fails THEN <<Block(<<ExprS(Unary("Minus", Str("x")))>>)>> ELSE <<>>)
          \o <<Return(Num(2))>>),
    Block(<<VarS("r", Call(Var("g"), <<Num(v)>>))>>),
    VarS("done", Literal(Bool(TRUE)))>>

\* class K { m(a) { return a; } }  fun f(a) { return a; }  var k = K();
\* var before = 1; <callee>(args.. (m times));
ArityProgram(callee, m) ==
  <<ClassS("K", <<Function("m", <<"a">>, <<Return(Var("a"))>>)>>),
    FuncS("f", <<"a">>, <<Return(Var("a"))>>),
    VarS("k", Call(Var("K"), <<>>)),
    VarS("before", Num(1)),
    ExprS(Call(CASE callee = "f" -> Var("f")
                 [] callee = "k.m" -> Get(Var("k"), "m")
                 [] callee = "mod" -> Var("mod")
                 [] callee = "clock" -> Var("clock"),
               [i \in 1..m |-> Num(i)]))>>

\* var x = 0; fun setx() { x = 5; }  fun caller(p) { var x = p; setx();
\* return x; }  var seen = caller(v);
ScopeProgram(v) ==
  <<VarS("x", Num(0)),
    FuncS("setx", <<>>, <<ExprS(Assign("x", Num(5)))>>),
    FuncS("caller", <<"p">>,
          <<VarS("x", Var("p")),
            ExprS(Call(Var("setx"), <<>>)),
            Return(Var("x"))>>),
    VarS("seen", Call(Var("caller"), <<Num(v)>>))>>

(***************************************************************************)
(* Source text.  A source is a sequence of lexemes on line 1: s is the     *)
(* text of an operator, parenthesis or keyword, or "number" / "string" for *)
(* a literal, whose value is v.  Each scanner turns a lexeme into one      *)
(* token of its own TokenType and ends the sequence with Eof.              *)
(***************************************************************************)
Lx(s) == [s |-> s, v |-> Nil]

LxNum(n) == [s |-> "number", v |-> Number(n)]

LxStr(str) == [s |-> "string", v |-> StringV(str)]

\* roxc/src/scanner.rs: the TokenType of a lexeme
RoxcTokenType(s) ==
  CASE s = "(" -> "LeftParen" [] s = ")" -> "RightParen"
    [] s = "-" -> "Minus" [] s = "+" -> "Plus" [] s = "/" -> "Slash" [] s = "*" -> "Star"
    [] s = "!" -> "Bang" [] s = "!=" -> "BangEq" [] s = "==" -> "EqEq"
    [] s = ">" -> "Greater" [] s = ">=" -> "GreaterEq"
    [] s = "<" -> "Less" [] s = "<=" -> "LessEq"
    [] s = "number" -> "Number" [] s = "string" -> "String"
    [] s = "false" -> "False" [] s = "nil" -> "Nil" [] s = "true" -> "True"

\* the tokens the scanner of roxc yields for a source
RoxcScan(src) ==
  [i \in 1..Len(src) |-> [kind |-> RoxcTokenType(src[i].s), slice |-> src[i].v, line |-> 1]]
  \o <<[kind |-> "Eof", slice |-> Nil, line |-> 1]>>

(***************************************************************************)
(* The scanner of roxc over characters (src/roxc/src/scanner.rs).  A       *)
(* source is a sequence of characters, each one byte long.  A scanner sc   *)
(* holds original, chars (the number of characters its Peekable<Chars>     *)
(* has handed out), line, found_eof and cursor; look_ahead is              *)
(* original[cursor..], and sc.panic tells that a slice of original was out *)
(* of range, which aborts the process.                                     *)
(***************************************************************************)
Digit == {"0", "1", "2", "3", "4", "5", "6", "7", "8", "9"}

Alphabetic ==
  {"a", "b", "c", "d", "e", "f", "g", "h", "i", "j", "k", "l", "m", "n", "o", "p", "q",
   "r", "s", "t", "u", "v", "w", "x", "y", "z"}

Whitespace == {" ", "\t", "\n", "\r"}

ScannerNew(s) ==
  [original |-> s, chars |-> 0, line |-> 1, found_eof |-> FALSE, cursor |-> 0,
   panic |-> FALSE]

\* self.chars.peek(), "None" at the end of the characters
Peek(sc) == IF sc.chars < Len(sc.original) THEN sc.original[sc.chars + 1] ELSE "None"

\* TokenType::try_from(ch)
TryFrom(ch) ==
  CASE ch = "(" -> [t |-> "Ok", kind |-> "LeftParen"]
    [] ch = ")" -> [t |-> "Ok", kind |-> "RightParen"]
    [] ch = "{" -> [t |-> "Ok", kind |-> "LeftBrace"]
    [] ch = "}" -> [t |-> "Ok", kind |-> "RightBrace"]
    [] ch = "," -> [t |-> "Ok", kind |-> "Comma"]
    [] ch = "." -> [t |-> "Ok", kind |-> "Period"]
    [] ch = "-" -> [t |-> "Ok", kind |-> "Minus"]
    [] ch = "+" -> [t |-> "Ok", kind |-> "Plus"]
    [] ch = ";" -> [t |-> "Ok", kind |-> "Semi"]
    [] ch = "/" -> [t |-> "Ok", kind |-> "Slash"]
    [] ch = "*" -> [t |-> "Ok", kind |-> "Star"]
    [] ch = "!" -> [t |-> "MaybeWithNext", yes |-> "BangEq", no |-> "Bang"]
    [] ch = "=" -> [t |-> "MaybeWithNext", yes |-> "EqEq", no |-> "Eq"]
    [] ch = ">" -> [t |-> "MaybeWithNext", yes |-> "GreaterEq", no |-> "Greater"]
    [] ch = "<" -> [t |-> "MaybeWithNext", yes |-> "LessEq", no |-> "Less"]
    [] ch = "\"" -> [t |-> "String"]
    [] ch \in Digit -> [t |-> "Number"]
    [] ch \in Alphabetic -> [t |-> "Ident", ch |-> ch]
    [] OTHER -> [t |-> "Error"]

\* advance: the next character is taken, cursor grows by one whether or not
\* there was a character, and original[cursor..] is sliced
ScanAdvance(sc) ==
  IF sc.panic THEN sc
  ELSE [sc EXCEPT !.line = IF Peek(sc) = "\n" THEN @ + 1 ELSE @,
                  !.chars = IF @ < Len(sc.original) THEN @ + 1 ELSE @,
                  !.cursor = @ + 1,
                  !.panic = sc.cursor + 1 > Len(sc.original)]

\* the closures handed to take_until and take_through
Stops(f, ch) ==
  CASE f = "newline" -> ch = "\n"
    [] f = "not whitespace" -> ch \notin Whitespace
    [] f = "not digit" -> ch \notin Digit
    [] f = "quote" -> ch = "\""
    [] f = "not alphabetic and not numeric" -> ch \notin Alphabetic /\ ch \notin Digit

RECURSIVE TakeUntil(_, _)

TakeUntil(sc, f) ==
  IF sc.panic \/ Peek(sc) = "None" THEN sc
  ELSE IF Stops(f, Peek(sc)) THEN sc
  ELSE TakeUntil(ScanAdvance(sc), f)

TakeThrough(sc, f) == ScanAdvance(TakeUntil(sc, f))

\* original.get(cursor..cursor + 2) is None when fewer than two characters
\* are left
CheckForIgnorable(sc) ==
  IF sc.cursor + 2 <= Len(sc.original)
  THEN IF SubSeq(sc.original, sc.cursor + 1, sc.cursor + 2) = <<"/", "/">> THEN "Comment"
       ELSE IF sc.original[sc.cursor + 1] \in Whitespace THEN "Whitespace"
       ELSE "None"
  ELSE IF Peek(sc) \in Whitespace THEN "Whitespace"
  ELSE "None"

RECURSIVE SkipWhitespace(_)

SkipWhitespace(sc) ==
  IF sc.panic THEN sc
  ELSE CASE CheckForIgnorable(sc) = "Comment" -> SkipWhitespace(TakeThrough(sc, "newline"))
         [] CheckForIgnorable(sc) = "Whitespace" ->
              SkipWhitespace(TakeUntil(sc, "not whitespace"))
         [] OTHER -> sc

\* the outcome of a scanner function that aborted
Aborted(sc) == [sc |-> sc, r |-> [t |-> "Panic"]]

\* self.token(kind, start) with the scanner it leaves, and Token { .. }
\* with a line taken earlier
TokenAt(sc, kind, start, line) ==
  IF sc.panic \/ sc.cursor > Len(sc.original) THEN Aborted([sc EXCEPT !.panic = TRUE])
  ELSE [sc |-> sc,
        r |-> [t |-> "Ok", kind |-> kind, line |-> line,
               slice |-> SubSeq(sc.original, start + 1, sc.cursor)]]

ScanToken(sc, kind, start) == TokenAt(sc, kind, start, sc.line)

\* start_token: the kind of a one-character token, whose character is
\* taken, or the MatchError, whose character is left
StartToken(sc) ==
  IF Peek(sc) = "None" THEN [sc |-> sc, r |-> [t |-> "Eof"]]
  ELSE IF TryFrom(Peek(sc)).t = "Ok"
       THEN [sc |-> [sc EXCEPT !.chars = @ + 1], r |-> TryFrom(Peek(sc))]
  ELSE [sc |-> sc, r |-> TryFrom(Peek(sc))]

\* the digit after the '.' that follows the integer part
FractionFollows(sc) ==
  /\ Peek(sc) = "."
  /\ sc.cursor + 2 <= Len(sc.original)
  /\ sc.original[sc.cursor + 2] \in Digit

ScanNumber(sc) ==
  LET Fraction(b) == TakeUntil(IF FractionFollows(b) THEN ScanAdvance(b) ELSE b, "not digit")
  IN  TokenAt(Fraction(TakeUntil(ScanAdvance(sc), "not digit")), "Number", sc.cursor, sc.line)

ScanString(sc) == ScanToken(TakeThrough(ScanAdvance(sc), "quote"), "String", sc.cursor)

FallbackIdent(sc, start) ==
  ScanToken(TakeUntil(sc, "not alphabetic and not numeric"), "Ident", start)

\* eat: the scanner it leaves and what it returns
ScanEat(sc, expect) ==
  IF Peek(sc) = expect THEN [sc |-> ScanAdvance(sc), ok |-> TRUE]
  ELSE [sc |-> sc, ok |-> FALSE]

RECURSIVE EatSuffix(_, _)

\* the for loop of single_option_keyword, which ends at the first
\* character that eat refuses
EatSuffix(sc, suffix) ==
  IF suffix = <<>> THEN [sc |-> sc, ok |-> TRUE]
  ELSE IF ScanEat(sc, Head(suffix)).ok THEN EatSuffix(ScanAdvance(sc), Tail(suffix))
  ELSE [sc |-> sc, ok |-> FALSE]

\* a single_option_keyword that does not look at the character after the
\* suffix
SingleOptionKeywordPrefix(sc, suffix, start, kind) ==
  LET After(e) == IF ~e.ok THEN FallbackIdent(e.sc, start) ELSE ScanToken(e.sc, kind, start)
  IN  After(EatSuffix(ScanAdvance(sc), suffix))

SingleOptionKeyword(sc, suffix, start, kind) ==
  LET After(e) ==
        IF ~e.ok THEN FallbackIdent(e.sc, start)
        ELSE IF Peek(e.sc) \in Alphabetic \cup Digit THEN FallbackIdent(e.sc, start)
        ELSE ScanToken(e.sc, kind, start)
  IN  After(EatSuffix(ScanAdvance(sc), suffix))

FKeyword(sc) ==
  LET Second(a) ==
        CASE Peek(a) = "a" -> SingleOptionKeyword(a, <<"l", "s", "e">>, sc.cursor, "False")
          [] Peek(a) = "o" -> SingleOptionKeyword(a, <<"r">>, sc.cursor, "For")
          [] Peek(a) = "u" -> SingleOptionKeyword(a, <<"n">>, sc.cursor, "Fun")
          [] OTHER -> FallbackIdent(a, sc.cursor)
  IN  Second(ScanAdvance(sc))

TKeyword(sc) ==
  LET Second(a) ==
        CASE Peek(a) = "h" -> SingleOptionKeyword(a, <<"i", "s">>, sc.cursor, "This")
          [] Peek(a) = "r" -> SingleOptionKeyword(a, <<"u", "e">>, sc.cursor, "True")
          [] OTHER -> FallbackIdent(a, sc.cursor)
  IN  Second(ScanAdvance(sc))

\* ident: the dispatch on the first letter; a_keyword, c_keyword, ... each
\* are one call of single_option_keyword
ScanIdent(sc, start) ==
  CASE start = "a" -> SingleOptionKeyword(sc, <<"n", "d">>, sc.cursor, "And")
    [] start = "c" -> SingleOptionKeyword(sc, <<"l", "a", "s", "s">>, sc.cursor, "Class")
    [] start = "e" -> SingleOptionKeyword(sc, <<"l", "s", "e">>, sc.cursor, "Else")
    [] start = "f" -> FKeyword(sc)
    [] start = "i" -> SingleOptionKeyword(sc, <<"f">>, sc.cursor, "If")
    [] start = "n" -> SingleOptionKeyword(sc, <<"i", "l">>, sc.cursor, "Nil")
    [] start = "o" -> SingleOptionKeyword(sc, <<"r">>, sc.cursor, "Or")
    [] start = "p" -> SingleOptionKeyword(sc, <<"r", "i", "n", "t">>, sc.cursor, "Print")
    [] start = "r" ->
         SingleOptionKeyword(sc, <<"e", "t", "u", "r", "n">>, sc.cursor, "Return")
    [] start = "s" -> SingleOptionKeyword(sc, <<"u", "p", "e", "r">>, sc.cursor, "Super")
    [] start = "t" -> TKeyword(sc)
    [] start = "v" -> SingleOptionKeyword(sc, <<"a", "r">>, sc.cursor, "Var")
    [] start = "w" -> SingleOptionKeyword(sc, <<"h", "i", "l", "e">>, sc.cursor, "While")
    [] OTHER -> FallbackIdent(sc, sc.cursor)

\* the MaybeWithNext arm of next_token
MaybeWithNext(sc, yes, no) ==
  LET Second(a) ==
        IF Peek(a) = "=" THEN ScanToken(ScanAdvance(a), yes, sc.cursor)
        ELSE ScanToken(a, no, sc.cursor)
  IN  Second(ScanAdvance(sc))

\* the match of next_token on what start_token returned
MatchStart(m) ==
  CASE m.r.t = "Ok" -> ScanToken([m.sc EXCEPT !.cursor = @ + 1], m.r.kind, m.sc.cursor)
    [] m.r.t = "Eof" -> ScanToken(m.sc, "Eof", m.sc.cursor)
    [] m.r.t = "MaybeWithNext" -> MaybeWithNext(m.sc, m.r.yes, m.r.no)
    [] m.r.t = "Ident" -> ScanIdent(m.sc, m.r.ch)
    [] m.r.t = "String" -> ScanString(m.sc)
    [] m.r.t = "Error" ->
         [sc |-> m.sc, r |-> [t |-> "Err", line |-> m.sc.line, index |-> m.sc.cursor]]
    [] m.r.t = "Number" -> ScanNumber(m.sc)

NextToken(sc) ==
  LET Skipped(s) == IF s.panic THEN Aborted(s) ELSE MatchStart(StartToken(s))
  IN  Skipped(SkipWhitespace(sc))

\* src/src/scanner.rs: the TokenType of a lexeme
TokenType(s) ==
  CASE s = "(" -> "LeftParen" [] s = ")" -> "RightParen"
    [] s = "-" -> "Minus" [] s = "+" -> "Plus" [] s = "/" -> "Slash" [] s = "*" -> "Star"
    [] s = "!" -> "Bang" [] s = "!=" -> "BangEqual" [] s = "==" -> "EqualEqual"
    [] s = ">" -> "Greater" [] s = ">=" -> "GreaterEqual"
    [] s = "<" -> "Less" [] s = "<=" -> "LessEqual"
    [] s = "number" -> "Number" [] s = "string" -> "String"
    [] s = "false" -> "False" [] s = "nil" -> "Nil" [] s = "true" -> "True"

\* the tokens the scanner of the tree-walk interpreter yields for a source
Scan(src) ==
  [i \in 1..Len(src) |-> [kind |-> TokenType(src[i].s), lit |-> src[i].v]]
  \o <<[kind |-> "Eof", lit |-> Nil]>>

(***************************************************************************)
(* The expression parser of the tree-walk interpreter (src/src/parser.rs). *)
(* A parser state p is the token sequence and the index of the lookahead;  *)
(* a result adds the expression and whether parsing succeeded.             *)
(***************************************************************************)
RECURSIVE ParseExpression(_, _), ParseUnary(_, _), ParseLevel(_, _, _),
          ParseLoop(_, _, _, _)

\* the operators of the while loops of equality, comparison, addition and
\* multiplication
LevelOps ==
  <<{"BangEqual", "EqualEqual"},
    {"Greater", "GreaterEqual", "Less", "LessEqual"},
    {"Minus", "Plus"},
    {"Slash", "Star"}>>

ParsePrimary(toks, i) ==
  LET tok == toks[i]
  IN  CASE tok.kind = "False" -> [ok |-> TRUE, e |-> Literal(Bool(FALSE)), i |-> i + 1]
        [] tok.kind = "True" -> [ok |-> TRUE, e |-> Literal(Bool(TRUE)), i |-> i + 1]
        [] tok.kind = "Nil" -> [ok |-> TRUE, e |-> Literal(Nil), i |-> i + 1]
        [] tok.kind \in {"Number", "String"} -> [ok |-> TRUE, e |-> Literal(tok.lit), i |-> i + 1]
        [] tok.kind = "LeftParen" ->
             LET r == ParseExpression(toks, i + 1)
             IN  IF r.ok /\ toks[r.i].kind = "RightParen"
                 THEN [ok |-> TRUE, e |-> Grouping(r.e), i |-> r.i + 1]
                 ELSE [r EXCEPT !.ok = FALSE]
        [] OTHER -> [ok |-> FALSE, e |-> Literal(Nil), i |-> i]

ParseUnary(toks, i) ==
  IF toks[i].kind \in {"Bang", "Minus"}
  THEN LET r == ParseUnary(toks, i + 1)
       IN  IF r.ok THEN [r EXCEPT !.e = Unary(toks[i].kind, r.e)] ELSE r
  ELSE ParsePrimary(toks, i)

\* the while loop of a binary level: expr = Expr::binary(expr, right, op)
ParseLoop(toks, level, expr, i) ==
  IF toks[i].kind \in LevelOps[level]
  THEN LET r == ParseLevel(toks, level + 1, i + 1)
       IN  IF r.ok THEN ParseLoop(toks, level, Binary(expr, toks[i].kind, r.e), r.i) ELSE r
  ELSE [ok |-> TRUE, e |-> expr, i |-> i]

\* equality (level 1), comparison (2), addition (3), multiplication (4),
\* then unary
ParseLevel(toks, level, i) ==
  IF level > Len(LevelOps) THEN ParseUnary(toks, i)
  ELSE LET l == ParseLevel(toks, level + 1, i)
       IN  IF l.ok THEN ParseLoop(toks, level, l.e, l.i) ELSE l

\* expression, through assignment, logical_or and logical_and, which find
\* none of their operators among the tokens of Scan
ParseExpression(toks, i) == ParseLevel(toks, 1, i)

(***************************************************************************)
(* The scanner of the tree-walk interpreters as the parser drives it       *)
(* (src/src/scanner.rs), over lexemes.  Beside the lexemes of tokens a     *)
(* source holds Lx(" ") and Lx("\n") for white space, Lx("//") for a       *)
(* comment up to the end of its line, Lx("@") for a character no token     *)
(* starts with and Lx("\"") for a string literal that is never closed and  *)
(* so runs to the end of the source.  A scanner sc holds source, current   *)
(* (the number of lexemes consumed), lookahead (<<>> for None, <<tok>> for *)
(* Some(tok)) and line.                                                    *)
(***************************************************************************)
LxIdent(name) == [s |-> "identifier", v |-> StringV(name)]

\* the TokenType of a lexeme that is a token
LoxTokenType(s) ==
  CASE s = "{" -> "LeftBrace" [] s = "}" -> "RightBrace"
    [] s = "," -> "Comma" [] s = "." -> "Dot" [] s = ";" -> "Semicolon"
    [] s = "=" -> "Equal" [] s = "identifier" -> "Identifier"
    [] s = "and" -> "And" [] s = "class" -> "Class" [] s = "else" -> "Else"
    [] s = "for" -> "For" [] s = "fun" -> "Fun" [] s = "if" -> "If" [] s = "or" -> "Or"
    [] s = "print" -> "Print" [] s = "return" -> "Return" [] s = "super" -> "Super"
    [] s = "this" -> "This" [] s = "var" -> "Var" [] s = "while" -> "While"
    [] OTHER -> TokenType(s)

LoxToken(lx, line) == [kind |-> LoxTokenType(lx.s), lit |-> lx.v, line |-> line]

LoxIsAtEnd(sc) == sc.current >= Len(sc.source)

\* Scanner::done: no token emitted is Eof
LoxDone(sc) == sc.lookahead = <<>> \/ sc.lookahead[1].kind = "Eof"

LoxLookaheadMatches(sc, ty) == sc.lookahead # <<>> /\ sc.lookahead[1].kind = ty

\* the '\n' that string() counts from the opening quote to the end
LoxNewlinesFrom(sc) ==
  Cardinality({i \in sc.current + 1..Len(sc.source) : sc.source[i].s = "\n"})

RECURSIVE LoxScanToken(_)

\* scan_token: the token scanned replaces the lookahead, which is returned
LoxScanToken(sc) ==
  IF LoxIsAtEnd(sc)
  THEN [sc |-> [sc EXCEPT !.lookahead = <<>>], t |-> "Ok", tok |-> sc.lookahead]
  ELSE LET lx == sc.source[sc.current + 1]
           adv == [sc EXCEPT !.current = @ + 1]
       IN  CASE lx.s \in {" ", "\r", "\t", "//"} -> LoxScanToken(adv)
             [] lx.s = "\n" -> LoxScanToken([adv EXCEPT !.line = @ + 1])
             [] lx.s = "\"" ->
                  [sc |-> [adv EXCEPT !.current = Len(sc.source),
                                      !.line = @ + LoxNewlinesFrom(adv)],
                   t |-> "Err", tok |-> <<>>]
             [] lx.s = "@" -> [sc |-> adv, t |-> "Err", tok |-> <<>>]
             [] OTHER ->
                  [sc |-> [adv EXCEPT !.lookahead = <<LoxToken(lx, sc.line)>>],
                   t |-> "Ok", tok |-> sc.lookahead]

\* Scanner::new: t is "Err" when the first scan_token fails
LoxScannerNew(source) ==
  LET First(r) == [sc |-> r.sc, t |-> r.t]
  IN  First(LoxScanToken([source |-> source, current |-> 0, lookahead |-> <<>>, line |-> 1]))

\* Iterator::next of the scanner: "None", "Ok" with tok or "Err"
LoxScannerNext(sc) ==
  IF LoxIsAtEnd(sc) THEN [sc |-> sc, t |-> "None", tok |-> <<>>]
  ELSE LET Transposed(r) ==
             IF r.t = "Ok" /\ r.tok = <<>> THEN [r EXCEPT !.t = "None"] ELSE r
       IN  Transposed(LoxScanToken(sc))

(***************************************************************************)
(* The parser of roxi (src/roxi/src/parser.rs).  A parser p holds its      *)
(* scanner and the tokens it has taken from it; a result is the parser     *)
(* after the call, t = "Ok" with the value v, or t = "Parser" / "Scanner"  *)
(* for Err(Error::Parser) / Err(Error::Scanner).                           *)
(***************************************************************************)
ParserNew(sc) == [scanner |-> sc, tokens |-> <<>>]

POk(p, v) == [p |-> p, t |-> "Ok", v |-> v]

PErr(p, e) == [p |-> p, t |-> e, v |-> Nil]

RECURSIVE Parse(_, _, _)
RECURSIVE ParserLevel(_, _), ParserClimb(_, _, _), ParserLoop(_, _, _), ParserUnary(_), ParserCallLoop(_, _)
RECURSIVE ParserParams(_, _), ParserArguments(_, _), ParserMethods(_, _)

ParserIsAtEnd(p) == LoxDone(p.scanner)

ParserCheck(p, ty) == ~ParserIsAtEnd(p) /\ LoxLookaheadMatches(p.scanner, ty)

ParserAdvance(p) ==
  IF ParserIsAtEnd(p) THEN POk(p, Nil)
  ELSE LET Pushed(n) ==
             CASE n.t = "None" -> POk([p EXCEPT !.scanner = n.sc], Nil)
               [] n.t = "Err" -> PErr([p EXCEPT !.scanner = n.sc], "Scanner")
               [] n.t = "Ok" ->
                    POk([scanner |-> n.sc, tokens |-> Append(p.tokens, n.tok[1])], Nil)
       IN  Pushed(LoxScannerNext(p.scanner))

\* at(ty)? || at(ty')? || ...: advance when the lookahead is of one of the
\* kinds; at_literal is the case of {"Number", "String"}, at_ident that of
\* {"Identifier"}
ParserAtAny(p, kinds) ==
  IF p.scanner.lookahead # <<>> /\ p.scanner.lookahead[1].kind \in kinds
  THEN LET Advanced(r) == IF r.t = "Ok" THEN POk(r.p, TRUE) ELSE r
       IN  Advanced(ParserAdvance(p))
  ELSE POk(p, FALSE)

ParserAt(p, ty) == ParserAtAny(p, {ty})

ParserPrevious(p) ==
  IF p.tokens = <<>> THEN PErr(p, "Parser") ELSE POk(p, p.tokens[Len(p.tokens)])

ParserPreviousLiteral(p) ==
  LET Matched(r) ==
        IF r.t # "Ok" THEN r
        ELSE CASE r.v.kind \in {"String", "Number"} -> POk(p, r.v.lit)
               [] r.v.kind = "True" -> POk(p, Bool(TRUE))
               [] r.v.kind = "False" -> POk(p, Bool(FALSE))
               [] r.v.kind = "Nil" -> POk(p, Nil)
               [] OTHER -> PErr(p, "Parser")
  IN  Matched(ParserPrevious(p))

ParserPreviousIdent(p) ==
  LET Matched(r) ==
        IF r.t # "Ok" THEN r
        ELSE IF r.v.kind = "Identifier" THEN POk(p, r.v.lit.s) ELSE PErr(p, "Parser")
  IN  Matched(ParserPrevious(p))

ParserExpectIdent(p) ==
  IF p.scanner.lookahead # <<>> /\ p.scanner.lookahead[1].kind = "Identifier"
  THEN LET Advanced(r) == IF r.t = "Ok" THEN POk(r.p, p.scanner.lookahead[1].lit.s) ELSE r
       IN  Advanced(ParserAdvance(p))
  ELSE PErr(p, "Parser")

ParserConsume(p, ty) == IF ParserCheck(p, ty) THEN ParserAdvance(p) ELSE PErr(p, "Parser")

\* the operators of the while loops of logical_or, logical_and, equality,
\* comparison, addition and multiplication
ParserLevelOps ==
  <<{"Or"}, {"And"}, {"BangEqual", "EqualEqual"},
    {"Greater", "GreaterEqual", "Less", "LessEqual"},
    {"Minus", "Plus"}, {"Slash", "Star"}>>

ParserPrimary(p) ==
  LET Group(c, expr) == IF c.t # "Ok" THEN c ELSE POk(c.p, Grouping(expr))
      Inner(e) == IF e.t # "Ok" THEN e ELSE Group(ParserConsume(e.p, "RightParen"), e.v)
      Paren(a) == IF a.t # "Ok" THEN a
                  ELSE IF a.v THEN Inner(Parse("assignment", a.p, Nil))
                  ELSE PErr(a.p, "Parser")
      Named(n) == IF n.t # "Ok" THEN n ELSE POk(n.p, Var(n.v))
      Ident(a) == IF a.t # "Ok" THEN a
                  ELSE IF a.v THEN Named(ParserPreviousIdent(a.p))
                  ELSE Paren(ParserAt(a.p, "LeftParen"))
      ThisE(a) == IF a.t # "Ok" THEN a
                  ELSE IF a.v THEN POk(a.p, This)
                  ELSE Ident(ParserAtAny(a.p, {"Identifier"}))
      Lit(l) == IF l.t # "Ok" THEN l ELSE POk(l.p, Literal(l.v))
      First(a) == IF a.t # "Ok" THEN a
                  ELSE IF a.v THEN Lit(ParserPreviousLiteral(a.p))
                  ELSE ThisE(ParserAt(a.p, "This"))
  IN  First(ParserAtAny(p, {"False", "True", "Nil", "Number", "String"}))

\* a while loop in progress: v is the vector it pushes to
PLoop(p, v) == [p |-> p, t |-> "Loop", v |-> v]

\* k with 2^k above half the number of lexemes, hence no less than the number
\* of iterations of a loop that takes two tokens in each but the last
Doublings(p) ==
  CHOOSE k \in 0..Len(p.scanner.source) : 2 ^ k > Len(p.scanner.source) \div 2

\* one iteration of the while loop of finish_call
ParserArgument(l) ==
  LET Pushed(e) == IF e.t # "Ok" THEN e ELSE PLoop(e.p, Append(l.v, e.v))
      More(a) == IF a.t # "Ok" THEN a
                 ELSE IF a.v THEN Pushed(Parse("assignment", a.p, Nil))
                 ELSE POk(a.p, l.v)
  IN  More(ParserAt(l.p, "Comma"))

\* the while loop of finish_call, up to 2^k iterations of it
ParserArguments(l, k) ==
  IF l.t # "Loop" THEN l
  ELSE IF k = 0 THEN ParserArgument(l)
  ELSE LET half == ParserArguments(l, k - 1)
       IN  IF half.t # "Loop" THEN half ELSE ParserArguments(half, k - 1)

ParserFinishCall(p, expr) ==
  LET Closed(c, args) == IF c.t # "Ok" THEN c ELSE POk(c.p, Call(expr, args))
      Args(a) == IF a.t # "Ok" THEN a ELSE Closed(ParserConsume(a.p, "RightParen"), a.v)
      FirstArg(e) ==
        IF e.t # "Ok" THEN e ELSE Args(ParserArguments(PLoop(e.p, <<e.v>>), Doublings(p)))
  IN  IF ~ParserCheck(p, "RightParen") THEN FirstArg(Parse("assignment", p, Nil))
      ELSE Args(POk(p, <<>>))

\* the loop of call
ParserCallLoop(p, expr) ==
  LET Called(c) == IF c.t # "Ok" THEN c ELSE ParserCallLoop(c.p, c.v)
      Got(n) == IF n.t # "Ok" THEN n ELSE ParserCallLoop(n.p, Get(expr, n.v))
      Dot(a) == IF a.t # "Ok" THEN a
                ELSE IF a.v THEN Got(ParserExpectIdent(a.p))
                ELSE POk(a.p, expr)
      Paren(a) == IF a.t # "Ok" THEN a
                  ELSE IF a.v THEN Called(ParserFinishCall(a.p, expr))
                  ELSE Dot(ParserAt(a.p, "Dot"))
  IN  Paren(ParserAt(p, "LeftParen"))

ParserCall(p) ==
  LET Looped(e) == IF e.t # "Ok" THEN e ELSE ParserCallLoop(e.p, e.v)
  IN  Looped(ParserPrimary(p))

ParserUnary(p) ==
  LET Built(r, op) == IF r.t # "Ok" THEN r ELSE POk(r.p, Unary(op.kind, r.v))
      Operand(o) == IF o.t # "Ok" THEN o ELSE Built(ParserUnary(o.p), o.v)
      Oper(a) == IF a.t # "Ok" THEN a
               ELSE IF a.v THEN Operand(ParserPrevious(a.p))
               ELSE ParserCall(a.p)
  IN  Oper(ParserAtAny(p, {"Bang", "Minus"}))

\* the while loop of a level: expr = Expr::log(expr, right, op) for the
\* first two, expr = Expr::binary(expr, right, op) for the others
ParserLoop(p, level, expr) ==
  LET Node(op, right) ==
        IF level <= 2 THEN Log(expr, op.kind, right) ELSE Binary(expr, op.kind, right)
      Right(r, op) == IF r.t # "Ok" THEN r ELSE ParserLoop(r.p, level, Node(op, r.v))
      Operator(o) == IF o.t # "Ok" THEN o ELSE Right(ParserLevel(o.p, level + 1), o.v)
      Oper(a) == IF a.t # "Ok" THEN a
               ELSE IF a.v THEN Operator(ParserPrevious(a.p))
               ELSE POk(a.p, expr)
  IN  Oper(ParserAtAny(p, ParserLevelOps[level]))

\* logical_or (level 1), logical_and, equality, comparison, addition and
\* multiplication (6), then unary
ParserLevel(p, level) == ParserClimb(ParserUnary(p), Len(ParserLevelOps), level)

\* the while loops of the levels from one of them up to another, on the
\* result of the level below: each level parses the one below it first, so
\* that unary comes first and the loops follow from multiplication upwards
ParserClimb(left, level, top) ==
  IF left.t # "Ok" \/ level < top THEN left
  ELSE ParserClimb(ParserLoop(left.p, level, left.v), level - 1, top)

\* assignment, which expression calls
ParserAssignment(p) ==
  LET Target(expr, value) ==
        CASE value.t # "Ok" -> value
          [] expr.k = "Var" -> POk(value.p, Assign(expr.name, value.v))
          [] expr.k = "Get" -> POk(value.p, Set(expr.object, expr.name, value.v))
          [] OTHER -> PErr(value.p, "Parser")
      Eq(a, expr) == IF a.t # "Ok" THEN a
                     ELSE IF a.v THEN Target(expr, Parse("assignment", a.p, Nil))
                     ELSE POk(a.p, expr)
      Left(l) == IF l.t # "Ok" THEN l ELSE Eq(ParserAt(l.p, "Equal"), l.v)
  IN  Left(ParserLevel(p, 1))

ParserExpressionStmt(p) ==
  LET Ended(c, value) == IF c.t # "Ok" THEN c ELSE POk(c.p, ExprS(value))
      Value(e) == IF e.t # "Ok" THEN e ELSE Ended(ParserConsume(e.p, "Semicolon"), e.v)
  IN  Value(Parse("assignment", p, Nil))

ParserVarDecl(p) ==
  LET Ended(c, stmt) == IF c.t # "Ok" THEN c ELSE POk(c.p, stmt)
      Value(e, name) ==
        IF e.t # "Ok" THEN e ELSE Ended(ParserConsume(e.p, "Semicolon"), VarS(name, e.v))
      Eq(a, name) ==
        IF a.t # "Ok" THEN a
        ELSE IF a.v THEN Value(Parse("assignment", a.p, Nil), name)
        ELSE Ended(ParserConsume(a.p, "Semicolon"), VarNone(name))
      Name(n) == IF n.t # "Ok" THEN n ELSE Eq(ParserAt(n.p, "Equal"), n.v)
  IN  Name(ParserExpectIdent(p))

\* the limit of bare_func on the number of parameters
MaxParams == 255

\* one iteration of the while loop of bare_func
ParserParam(l) ==
  LET Pushed(n) ==
        IF n.t # "Ok" THEN n
        ELSE IF Len(l.v) + 1 > MaxParams THEN PErr(n.p, "Parser")
        ELSE PLoop(n.p, Append(l.v, n.v))
      More(a) == IF a.t # "Ok" THEN a
                 ELSE IF a.v THEN Pushed(ParserExpectIdent(a.p))
                 ELSE POk(a.p, l.v)
  IN  More(ParserAt(l.p, "Comma"))

\* the while loop of bare_func, up to 2^k iterations of it
ParserParams(l, k) ==
  IF l.t # "Loop" THEN l
  ELSE IF k = 0 THEN ParserParam(l)
  ELSE LET half == ParserParams(l, k - 1)
       IN  IF half.t # "Loop" THEN half ELSE ParserParams(half, k - 1)

ParserBareFunc(p) ==
  LET Body(b, name, params) ==
        IF b.t # "Ok" THEN b ELSE POk(b.p, Function(name, params, b.v))
      Brace(c, name, params) ==
        IF c.t # "Ok" THEN c ELSE Body(Parse("bare_block", c.p, <<>>), name, params)
      Close(c, name, params) ==
        IF c.t # "Ok" THEN c ELSE Brace(ParserConsume(c.p, "LeftBrace"), name, params)
      Params(r, name) ==
        IF r.t # "Ok" THEN r ELSE Close(ParserConsume(r.p, "RightParen"), name, r.v)
      FirstParam(n, name) ==
        IF n.t # "Ok" THEN n
        ELSE Params(ParserParams(PLoop(n.p, <<n.v>>), Doublings(p)), name)
      Open(c, name) ==
        IF c.t # "Ok" THEN c
        ELSE IF ~ParserCheck(c.p, "RightParen") THEN FirstParam(ParserExpectIdent(c.p), name)
        ELSE Params(POk(c.p, <<>>), name)
      Name(n) == IF n.t # "Ok" THEN n ELSE Open(ParserConsume(n.p, "LeftParen"), n.v)
  IN  Name(ParserExpectIdent(p))

ParserFunDecl(p) ==
  LET Func(f) == IF f.t # "Ok" THEN f ELSE POk(f.p, [k |-> "Func", f |-> f.v])
  IN  Func(ParserBareFunc(p))

\* the while loop of class_decl: methods are the methods pushed
ParserMethods(p, methods) ==
  LET Pushed(f) == IF f.t # "Ok" THEN f ELSE ParserMethods(f.p, Append(methods, f.v))
  IN  IF ~ParserIsAtEnd(p) /\ ~ParserCheck(p, "RightBrace") THEN Pushed(ParserBareFunc(p))
      ELSE POk(p, methods)

ParserClassDecl(p) ==
  LET Close(c, ident, methods) == IF c.t # "Ok" THEN c ELSE POk(c.p, ClassS(ident, methods))
      Methods(m, ident) ==
        IF m.t # "Ok" THEN m ELSE Close(ParserConsume(m.p, "RightBrace"), ident, m.v)
      Brace(c, ident) == IF c.t # "Ok" THEN c ELSE Methods(ParserMethods(c.p, <<>>), ident)
      Name(n) == IF n.t # "Ok" THEN n ELSE Brace(ParserConsume(n.p, "LeftBrace"), n.v)
  IN  Name(ParserExpectIdent(p))

ParserPrintStmt(p) ==
  LET Ended(c, value) == IF c.t # "Ok" THEN c ELSE POk(c.p, PrintS(value))
      Value(e) == IF e.t # "Ok" THEN e ELSE Ended(ParserConsume(e.p, "Semicolon"), e.v)
  IN  Value(Parse("assignment", p, Nil))

ParserReturnStmt(p) ==
  LET Ended(c, stmt) == IF c.t # "Ok" THEN c ELSE POk(c.p, stmt)
      Value(e) == IF e.t # "Ok" THEN e ELSE Ended(ParserConsume(e.p, "Semicolon"), Return(e.v))
  IN  IF ~ParserCheck(p, "Semicolon") THEN Value(Parse("assignment", p, Nil))
      ELSE Ended(ParserConsume(p, "Semicolon"), ReturnNone)

ParserWhileStmt(p) ==
  LET Body(b, test) == IF b.t # "Ok" THEN b ELSE POk(b.p, While(test, b.v))
      Close(c, test) == IF c.t # "Ok" THEN c ELSE Body(Parse("statement", c.p, Nil), test)
      Test(e) == IF e.t # "Ok" THEN e ELSE Close(ParserConsume(e.p, "RightParen"), e.v)
      Open(c) == IF c.t # "Ok" THEN c ELSE Test(Parse("assignment", c.p, Nil))
  IN  Open(ParserConsume(p, "LeftParen"))

\* for_stmt; init and update are <<>> for None and <<x>> for Some(x)
\* a loop whose update comes before its body
ParserForBlockUpdateFirst(init, cond, update, body) ==
  Block(init \o <<While(cond, Block([i \in 1..Len(update) |-> ExprS(update[i])]
                                     \o <<body>>))>>)

\* the block of for_stmt: init when there is one, then the while statement,
\* whose body is body and then update when there is one
ParserForBlock(init, cond, update, body) ==
  Block(init \o <<While(cond, Block(<<body>> \o [i \in 1..Len(update) |->
                                                  ExprS(update[i])]))>>)

ParserForStmt(p) ==
  LET Body(b, init, cond, update) ==
        IF b.t # "Ok" THEN b ELSE POk(b.p, ParserForBlock(init, cond, update, b.v))
      Close(c, init, cond, update) ==
        IF c.t # "Ok" THEN c ELSE Body(Parse("statement", c.p, Nil), init, cond, update)
      Update(e, init, cond) ==
        IF e.t # "Ok" THEN e ELSE Close(ParserConsume(e.p, "RightParen"), init, cond, e.v)
      Semi(c, init, cond) ==
        IF c.t # "Ok" THEN c
        ELSE IF ~ParserCheck(c.p, "RightParen")
             THEN Update([Parse("assignment", c.p, Nil) EXCEPT !.v = <<@>>], init, cond)
        ELSE Update(POk(c.p, <<>>), init, cond)
      Cond(e, init) == IF e.t # "Ok" THEN e ELSE Semi(ParserConsume(e.p, "Semicolon"), init, e.v)
      InitOf(i) ==
        IF i.t # "Ok" THEN i
        ELSE IF ~ParserCheck(i.p, "Semicolon") THEN Cond(Parse("assignment", i.p, Nil), i.v)
        ELSE Cond(POk(i.p, Literal(Bool(TRUE))), i.v)
      Some(s) == IF s.t # "Ok" THEN s ELSE InitOf(POk(s.p, <<s.v>>))
      VarKw(a) == IF a.t # "Ok" THEN a
                  ELSE IF a.v THEN Some(ParserVarDecl(a.p))
                  ELSE Some(ParserExpressionStmt(a.p))
      Empty(a) == IF a.t # "Ok" THEN a
                  ELSE IF a.v THEN InitOf(POk(a.p, <<>>))
                  ELSE VarKw(ParserAt(a.p, "Var"))
      Open(c) == IF c.t # "Ok" THEN c ELSE Empty(ParserAt(c.p, "Semicolon"))
  IN  Open(ParserConsume(p, "LeftParen"))

\* the while loop of bare_block and its closing brace: ret are the
\* statements pushed
ParserBareBlock(p, ret) ==
  LET Close(c) == IF c.t # "Ok" THEN c ELSE POk(c.p, ret)
      Pushed(d) == IF d.t # "Ok" THEN d ELSE Parse("bare_block", d.p, Append(ret, d.v))
  IN  IF ~ParserCheck(p, "RightBrace") /\ ~ParserIsAtEnd(p) THEN Pushed(Parse("decl", p, Nil))
      ELSE Close(ParserConsume(p, "RightBrace"))

ParserBlockStmt(p) ==
  LET Wrapped(b) == IF b.t # "Ok" THEN b ELSE POk(b.p, Block(b.v))
  IN  Wrapped(Parse("bare_block", p, <<>>))

ParserIfStmt(p) ==
  LET Alt(s, cond, cons) == IF s.t # "Ok" THEN s ELSE POk(s.p, IfElse(cond, cons, s.v))
      Else(a, cond, cons) ==
        IF a.t # "Ok" THEN a
        ELSE IF a.v THEN Alt(Parse("statement", a.p, Nil), cond, cons)
        ELSE POk(a.p, If(cond, cons))
      Cons(s, cond) == IF s.t # "Ok" THEN s ELSE Else(ParserAt(s.p, "Else"), cond, s.v)
      Close(c, cond) == IF c.t # "Ok" THEN c ELSE Cons(Parse("statement", c.p, Nil), cond)
      Cond(e) == IF e.t # "Ok" THEN e ELSE Close(ParserConsume(e.p, "RightParen"), e.v)
      Open(c) == IF c.t # "Ok" THEN c ELSE Cond(Parse("assignment", c.p, Nil))
  IN  Open(ParserConsume(p, "LeftParen"))

\* statement: the keyword the lookahead is, if any, is taken
ParserStatement(p) ==
  LET kw == p.scanner.lookahead[1].kind
      Kw(a) ==
        IF a.t # "Ok" THEN a
        ELSE IF ~a.v THEN ParserExpressionStmt(a.p)
        ELSE CASE kw = "Print" -> ParserPrintStmt(a.p)
               [] kw = "Return" -> ParserReturnStmt(a.p)
               [] kw = "LeftBrace" -> ParserBlockStmt(a.p)
               [] kw = "If" -> ParserIfStmt(a.p)
               [] kw = "While" -> ParserWhileStmt(a.p)
               [] kw = "For" -> ParserForStmt(a.p)
  IN  Kw(ParserAtAny(p, {"Print", "Return", "LeftBrace", "If", "While", "For"}))

ParserDecl(p) ==
  LET kw == p.scanner.lookahead[1].kind
      Kw(a) ==
        IF a.t # "Ok" THEN a
        ELSE IF ~a.v THEN Parse("statement", a.p, Nil)
        ELSE CASE kw = "Var" -> ParserVarDecl(a.p)
               [] kw = "Fun" -> ParserFunDecl(a.p)
               [] kw = "Class" -> ParserClassDecl(a.p)
  IN  Kw(ParserAtAny(p, {"Var", "Fun", "Class"}))

\* self.rule(a) on the parser p: the methods of the parser call one another
\* through Parse
Parse(rule, p, a) ==
  CASE rule = "assignment" -> ParserAssignment(p)
    [] rule = "bare_block" -> ParserBareBlock(p, a)
    [] rule = "statement" -> ParserStatement(p)
    [] rule = "decl" -> ParserDecl(p)

\* sync from its loop on: t is "Hang" when an iteration neither breaks nor
\* changes the parser, so that the loop never ends
RECURSIVE ParserSyncLoop(_)

ParserSyncLoop(p) ==
  LET Advanced(r) == IF r.p = p THEN [p |-> p, t |-> "Hang"] ELSE ParserSyncLoop(r.p)
      prev == ParserPrevious(p)
  IN  IF ParserIsAtEnd(p) THEN [p |-> p, t |-> "Ok"]
      ELSE IF prev.t = "Ok" /\ prev.v.kind = "Semicolon" THEN [p |-> p, t |-> "Ok"]
      ELSE IF \E ty \in {"Class", "Fun", "Var", "For", "If", "While", "Print", "Return"} :
                LoxLookaheadMatches(p.scanner, ty)
           THEN [p |-> p, t |-> "Ok"]
      ELSE Advanced(ParserAdvance(p))

ParserSync(p) == ParserSyncLoop(ParserAdvance(p).p)

\* Iterator::next of the parser
ParserNext(p) == IF ParserIsAtEnd(p) THEN [p |-> p, t |-> "None", v |-> Nil] ELSE Parse("decl", p, Nil)

(***************************************************************************)
(* Resolver (src/src/resolver.rs).  A resolver is its scopes (a stack of   *)
(* maps from a name to whether it is defined), its depths (a map from a    *)
(* name to a hop) and its current_func.  The field seen is not part of     *)
(* the program: it lists, for each call of visit_var and of visit_assign,  *)
(* the name, the names each scope held at the call and the entry of depths *)
(* for the name after it.  The result of a visit is the resolver and       *)
(* "Ok", "Parser" (Err(Error::Parser)) or "Abort" (a panic).               *)
(***************************************************************************)
NoMap == [n \in {} |-> FALSE]

\* Resolver::new
ResolverNew == [scopes |-> <<>>, depths |-> NoMap, current_func |-> "None", seen |-> <<>>]

ROk(r) == [r |-> r, t |-> "Ok"]

RErr(r, t) == [r |-> r, t |-> t]

ResolverBeginScope(r) == [r EXCEPT !.scopes = Append(@, NoMap)]

\* an end_scope that leaves the scope on the stack
ResolverEndScopeKeeps(r) == r

\* Vec::pop: nothing happens on an empty stack
ResolverEndScope(r) ==
  IF r.scopes = <<>> THEN r ELSE [r EXCEPT !.scopes = SubSeq(@, 1, Len(@) - 1)]

ResolverDeclare(r, name) ==
  IF r.scopes = <<>> THEN ROk(r)
  ELSE IF name \in DOMAIN r.scopes[Len(r.scopes)] THEN RErr(r, "Parser")
  ELSE ROk([r EXCEPT !.scopes[Len(r.scopes)] = MapInsert(@, name, FALSE)])

ResolverDefine(r, name) ==
  IF r.scopes # <<>> /\ name \in DOMAIN r.scopes[Len(r.scopes)]
  THEN [r EXCEPT !.scopes[Len(r.scopes)] = MapInsert(@, name, TRUE)]
  ELSE r

RECURSIVE ResolveLocalFrom(_, _, _)

\* the loop of resolve_local from scope i down to the first: every scope
\* that holds the name inserts its hop, so that the last insert stays
ResolveLocalFrom(r, name, i) ==
  IF i = 0 THEN r
  ELSE ResolveLocalFrom(
         IF name \in DOMAIN r.scopes[i]
         THEN [r EXCEPT !.depths = MapInsert(@, name, Len(r.scopes) - i)]
         ELSE r,
         name, i - 1)

ResolveLocal(r, name) == ResolveLocalFrom(r, name, Len(r.scopes))

\* the entry of depths for a name
Hop(depths, name) ==
  IF name \in DOMAIN depths THEN [has |-> TRUE, n |-> depths[name]] ELSE [has |-> FALSE, n |-> 0]

\* resolve_local, and what is seen of it
ResolveUse(r, name) ==
  LET after == ResolveLocal(r, name)
  IN  [after EXCEPT !.seen =
         Append(@, [name |-> name,
                    declared |-> [i \in 1..Len(r.scopes) |-> DOMAIN r.scopes[i]],
                    hop |-> Hop(after.depths, name)])]

RECURSIVE Resolve(_, _, _)

VisitVarExpr(r, name) ==
  IF /\ r.scopes # <<>>
     /\ name \in DOMAIN r.scopes[Len(r.scopes)]
     /\ ~r.scopes[Len(r.scopes)][name]
  THEN RErr(r, "Parser")
  ELSE ROk(ResolveUse(r, name))

VisitAssignExpr(r, name, value) ==
  LET Value(v) == IF v.t # "Ok" THEN v ELSE ROk(ResolveUse(v.r, name))
  IN  Value(Resolve("expr", r, value))

\* visit_bin, visit_log, visit_set: one expression, then the other
VisitTwo(r, first, second) ==
  LET First(f) == IF f.t # "Ok" THEN f ELSE Resolve("expr", f.r, second)
  IN  First(Resolve("expr", r, first))

\* the first i expressions of a list
ResolveExprList(r, list, i) ==
  LET Before(b) == IF b.t # "Ok" THEN b ELSE Resolve("expr", b.r, list[i])
  IN  IF i = 0 THEN ROk(r) ELSE Before(Resolve("exprs", r, <<list, i - 1>>))

VisitCallExpr(r, callee, arguments) ==
  LET Callee(c) ==
        IF c.t # "Ok" THEN c ELSE Resolve("exprs", c.r, <<arguments, Len(arguments)>>)
  IN  Callee(Resolve("expr", r, callee))

\* visit_this is unimplemented!()
VisitThisExpr(r) == RErr(r, "Abort")

\* Expr::accept
ResolveExpr(r, e) ==
  CASE e.k = "Literal" -> ROk(r)
    [] e.k = "Var" -> VisitVarExpr(r, e.name)
    [] e.k = "Assign" -> VisitAssignExpr(r, e.name, e.value)
    [] e.k \in {"Binary", "Log"} -> VisitTwo(r, e.left, e.right)
    [] e.k = "Grouping" -> Resolve("expr", r, e.inner)
    [] e.k = "Unary" -> Resolve("expr", r, e.right)
    [] e.k = "Call" -> VisitCallExpr(r, e.callee, e.arguments)
    [] e.k = "Get" -> Resolve("expr", r, e.object)
    [] e.k = "Set" -> VisitTwo(r, e.object, e.value)
    [] e.k = "This" -> VisitThisExpr(r)

\* the first i statements of a list
ResolveStmtList(r, stmts, i) ==
  LET Before(b) == IF b.t # "Ok" THEN b ELSE Resolve("stmt", b.r, stmts[i])
  IN  IF i = 0 THEN ROk(r) ELSE Before(Resolve("stmts", r, <<stmts, i - 1>>))

ResolveVarStmt(r, s) ==
  LET Value(v) == IF v.t # "Ok" THEN v ELSE ROk(ResolverDefine(v.r, s.name))
      Declared(d) ==
        IF d.t # "Ok" THEN d
        ELSE IF s.has THEN Value(Resolve("expr", d.r, s.value))
        ELSE Value(d)
  IN  Declared(ResolverDeclare(r, s.name))

ResolveBlockStmt(r, list) ==
  LET Listed(l) == IF l.t # "Ok" THEN l ELSE ROk(ResolverEndScope(l.r))
  IN  Listed(Resolve("stmts", ResolverBeginScope(r), <<list, Len(list)>>))

ResolveIfStmt(r, s) ==
  LET Cons(c) ==
        IF c.t # "Ok" THEN c
        ELSE IF s.has THEN Resolve("stmt", c.r, s.alt)
        ELSE c
      Test(e) == IF e.t # "Ok" THEN e ELSE Cons(Resolve("stmt", e.r, s.cons))
  IN  Test(Resolve("expr", r, s.test))

ResolveWhileStmt(r, s) ==
  LET Test(e) == IF e.t # "Ok" THEN e ELSE Resolve("stmt", e.r, s.body)
  IN  Test(Resolve("expr", r, s.test))

\* declare and define the first i parameters
ResolveParams(r, params, i) ==
  LET Declared(d) == IF d.t # "Ok" THEN d ELSE ROk(ResolverDefine(d.r, params[i]))
      Before(b) == IF b.t # "Ok" THEN b ELSE Declared(ResolverDeclare(b.r, params[i]))
  IN  IF i = 0 THEN ROk(r) ELSE Before(Resolve("params", r, <<params, i - 1>>))

ResolveFunc(r, params, body, ty) ==
  LET Body(b) ==
        IF b.t # "Ok" THEN b
        ELSE ROk([ResolverEndScope(b.r) EXCEPT !.current_func = r.current_func])
      Params(p) == IF p.t # "Ok" THEN p ELSE Body(Resolve("stmts", p.r, <<body, Len(body)>>))
  IN  Params(Resolve("params", ResolverBeginScope([r EXCEPT !.current_func = ty]),
                     <<params, Len(params)>>))

ResolveFuncDecl(r, f) ==
  LET Declared(d) ==
        IF d.t # "Ok" THEN d
        ELSE ResolveFunc(ResolverDefine(d.r, f.name), f.params, f.body, "Func")
  IN  Declared(ResolverDeclare(r, f.name))

ResolveReturnStmt(r, s) ==
  IF r.current_func = "None" THEN RErr(r, "Parser")
  ELSE IF r.current_func = "Init" THEN RErr(r, "Parser")
  ELSE IF s.has THEN Resolve("expr", r, s.e)
  ELSE ROk(r)

\* the first i methods of a class
ResolveMethods(r, methods, i) ==
  LET Before(b) ==
        IF b.t # "Ok" THEN b
        ELSE ResolveFunc(b.r, methods[i].params, methods[i].body, "Method")
  IN  IF i = 0 THEN ROk(r) ELSE Before(Resolve("methods", r, <<methods, i - 1>>))

ResolveClass(r, s) ==
  Resolve("methods", ResolverDefine(r, s.name), <<s.methods, Len(s.methods)>>)

\* Stmt::accept
ResolveStmt(r, s) ==
  CASE s.k \in {"Print", "Expr"} -> Resolve("expr", r, s.e)
    [] s.k = "Var" -> ResolveVarStmt(r, s)
    [] s.k = "Block" -> ResolveBlockStmt(r, s.list)
    [] s.k = "If" -> ResolveIfStmt(r, s)
    [] s.k = "While" -> ResolveWhileStmt(r, s)
    [] s.k = "Func" -> ResolveFuncDecl(r, s.f)
    [] s.k = "Return" -> ResolveReturnStmt(r, s)
    [] s.k = "Class" -> ResolveClass(r, s)

\* the calls among the visits, by the name of what is resolved
Resolve(rule, r, a) ==
  CASE rule = "expr" -> ResolveExpr(r, a)
    [] rule = "exprs" -> ResolveExprList(r, a[1], a[2])
    [] rule = "stmt" -> ResolveStmt(r, a)
    [] rule = "stmts" -> ResolveStmtList(r, a[1], a[2])
    [] rule = "params" -> ResolveParams(r, a[1], a[2])
    [] rule = "methods" -> ResolveMethods(r, a[1], a[2])


(***************************************************************************)
(* The prompt of roxi (src/roxi/src/lib.rs, Lox::run_prompt).  A string is *)
(* the sequence of its characters.                                         *)
(***************************************************************************)
\* str::ends_with
EndsWith(s, suffix) ==
  /\ Len(s) >= Len(suffix)
  /\ SubSeq(s, Len(s) - Len(suffix) + 1, Len(s)) = suffix

\* the end of line of Windows is replaced by "\n": two pops and a push
NormaliseEnd(line) ==
  IF EndsWith(line, <<"\r", "\n">>)
  THEN Append(SubSeq(line, 1, Len(line) - 2), "\n")
  ELSE line

\* usize::saturating_sub(1)
SaturatingDec(n) == IF n = 0 THEN 0 ELSE n - 1

\* the indent after the two checks of the braces
IndentAfter(n, line) ==
  LET opened == IF EndsWith(line, <<"{", "\n">>) THEN n + 1 ELSE n
  IN IF EndsWith(line, <<"}", "\n">>) THEN SaturatingDec(opened) ELSE opened

\* write_prompt: "> " at indent 0, else two spaces for each level
WritePrompt(n) ==
  IF n > 0 THEN [i \in 1..(2 * n) |-> " "] ELSE <<">", " ">>

\* One pass of the inner loop after read_line has appended what it read to
\* line: the outcome is the line, the indent and whether the loop breaks
ReplStep(n, line) ==
  LET l == NormaliseEnd(line)
  IN IF n = 0 /\ EndsWith(l, <<";", "\n">>)
     THEN [line |-> l, indent |-> n, brk |-> TRUE]
     ELSE [line |-> l, indent |-> IndentAfter(n, l), brk |-> IndentAfter(n, l) = 0]

(***************************************************************************)
(* Chunk (src/roxc/src/chunk.rs) and the values of the VM                  *)
(* (src/roxc/src/value.rs).  Indices into values and heap count from 0.    *)
(***************************************************************************)
VNumber(f) == [t |-> "Number", n |-> f]

VBoolean(b) == [t |-> "Boolean", b |-> b]

VNil == [t |-> "Nil"]

VObj(idx) == [t |-> "Obj", idx |-> idx]

Op(name) == [op |-> name]

OpConstant(idx) == [op |-> "Constant", idx |-> idx]

RunLength(value, len) == [value |-> value, len |-> len]

\* RunList::default(): no run
RunListDefault == <<>>

\* a push that leaves the last run as it is when it has the value pushed
RunListPushDedup(values, i) ==
  IF values # <<>> /\ values[Len(values)].value = i THEN values
  ELSE Append(values, RunLength(i, 1))

\* RunList::push: lengthen the last run when it has the value pushed, else
\* start a run of length 1
RunListPush(values, i) ==
  IF values # <<>> /\ values[Len(values)].value = i
  THEN [values EXCEPT ![Len(values)].len = @ + 1]
  ELSE Append(values, RunLength(i, 1))

RECURSIVE RunListWalk(_, _, _, _)

\* the for loop of get_unchecked from run k on, ct indices being covered by
\* the runs before k; running out of runs is the panic!
RunListWalk(values, k, ct, idx) ==
  IF k > Len(values) THEN [t |-> "Panic"]
  ELSE IF idx >= ct /\ idx < ct + values[k].len THEN [t |-> "Ok", v |-> values[k].value]
  ELSE RunListWalk(values, k + 1, ct + values[k].len, idx)

GetUnchecked(values, idx) == RunListWalk(values, 1, 0, idx)

ChunkDefault == [code |-> <<>>, values |-> <<>>, heap |-> <<>>, lines |-> RunListDefault]

\* a write that records no line
ChunkWriteCodeOnly(chunk, byte, line) == [chunk EXCEPT !.code = Append(@, byte)]

ChunkWrite(chunk, byte, line) ==
  [chunk EXCEPT !.code = Append(@, byte), !.lines = RunListPush(@, line)]

\* the index returned is Len(chunk.values)
AddConstant(chunk, value) == [chunk EXCEPT !.values = Append(@, value)]

\* an add_obj that puts the object in front of the heap
AddObjFirst(chunk, obj) == [chunk EXCEPT !.heap = <<obj>> \o @]

\* the index returned is Len(chunk.heap)
AddObj(chunk, obj) == [chunk EXCEPT !.heap = Append(@, obj)]

(***************************************************************************)
(* The single-pass compiler (src/roxc/src/compiler.rs).  A compiler state  *)
(* c holds the tokens the scanner has yet to yield, prev, current, the     *)
(* chunk, panic_mode and the diagnostics printed.                          *)
(***************************************************************************)
PrecNone == 0

PrecAssignment == 1

PrecEquality == 4

PrecTerm == 6

PrecFactor == 7

PrecUnary == 8

DeterminePrecedence(kind) ==
  CASE kind \in {"Minus", "Plus"} -> PrecTerm
    [] kind \in {"Slash", "Star"} -> PrecFactor
    [] kind \in {"EqEq", "BangEq", "LessEq", "GreaterEq", "Greater", "Less"} -> PrecEquality
    [] OTHER -> PrecNone

\* the kinds for which Compiler::prefix returns a parse function
PrefixKinds ==
  {"LeftParen", "Minus", "Bang", "Number", "String", "True", "False", "Nil"}

\* the kinds for which Compiler::infix returns a parse function
InfixKinds ==
  {"Minus", "Plus", "Slash", "Star", "Number", "EqEq", "BangEq", "LessEq", "GreaterEq",
   "Greater", "Less"}

\* the calls of precedence that may be open at once before the stack of the
\* process is used up
MaxDepth == 6

\* a compiler whose scanner has the tokens toks left to yield.  live tells
\* that the tokens come from the scanner sc over characters instead; error
\* is Some(_) or not; depth counts the open calls of precedence, deepest is
\* the most there were, and halt is "Overflow" when the stack was used up,
\* "Panic" when the scanner aborted the process and "Loop" when the loop of
\* precedence does not end
CompilerNew(toks) ==
  [toks |-> toks,
   live |-> FALSE,
   sc |-> ScannerNew(<<>>),
   prev |-> [kind |-> "Eof", slice |-> Nil, line |-> 0],
   current |-> [kind |-> "Eof", slice |-> Nil, line |-> 0],
   chunk |-> ChunkDefault,
   error |-> FALSE,
   panic_mode |-> FALSE,
   diag |-> <<>>,
   depth |-> 0,
   deepest |-> 0,
   halt |-> "None"]

\* Compiler::new(source)
CompilerOver(src) == [CompilerNew(<<>>) EXCEPT !.live = TRUE, !.sc = ScannerNew(src)]

\* Iterator::next of the scanner: None once Eof was found, else
\* Some(next_token()), and found_eof is set when the token is Eof
ScannerNext(sc) ==
  LET Found(n) ==
        [sc |-> IF n.r.t = "Ok" /\ n.r.kind = "Eof" THEN [n.sc EXCEPT !.found_eof = TRUE]
                ELSE n.sc,
         r |-> n.r]
  IN  IF sc.found_eof THEN [sc |-> sc, r |-> [t |-> "None"]] ELSE Found(NextToken(sc))

RECURSIVE ParseDecimal(_)

\* str::parse::<f64> on a slice of digits
ParseDecimal(digits) ==
  IF digits = <<>> THEN 0
  ELSE 10 * ParseDecimal(SubSeq(digits, 1, Len(digits) - 1))
       + (CHOOSE d \in 0..9 : <<"0", "1", "2", "3", "4", "5", "6", "7", "8", "9">>[d + 1]
                                = digits[Len(digits)])

\* a token of the scanner as number and string read it: the number is
\* prev.slice.parse() and the string prev.slice[1..len - 1]
CompToken(tok) ==
  [kind |-> tok.kind,
   line |-> tok.line,
   slice |-> CASE tok.kind = "Number" -> Number(ParseDecimal(tok.slice))
               [] tok.kind = "String" -> StringV(SubSeq(tok.slice, 2, Len(tok.slice) - 1))
               [] OTHER -> Nil]

\* advance: on Some(Ok(tok)) prev and current move on; on Some(Err(e)) the
\* error is printed and kept, on None nothing happens, and prev and current
\* stay.  The scanner of tokens yields None once Eof has been taken
CompAdvance(c) ==
  LET Got(n) ==
        CASE n.r.t = "Ok" ->
               [c EXCEPT !.sc = n.sc, !.prev = c.current, !.current = CompToken(n.r)]
          [] n.r.t = "Err" ->
               [c EXCEPT !.sc = n.sc, !.error = TRUE, !.diag = Append(@, "scanner error")]
          [] n.r.t = "None" -> [c EXCEPT !.sc = n.sc]
          [] n.r.t = "Panic" -> [c EXCEPT !.sc = n.sc, !.halt = "Panic"]
  IN  IF c.halt # "None" THEN c
      ELSE IF c.live THEN Got(ScannerNext(c.sc))
      ELSE IF c.toks = <<>> THEN c
      ELSE [c EXCEPT !.prev = c.current, !.current = Head(c.toks), !.toks = Tail(c.toks)]

\* eat: advance when current is of the kind, else a line on stderr
CompEat(c, kind) ==
  IF c.current.kind = kind THEN [c |-> CompAdvance(c), ok |-> TRUE]
  ELSE [c |-> [c EXCEPT !.diag = Append(@, c.current.kind \o " didn't match " \o kind
                                                 \o " skipping advance")], ok |-> FALSE]

CompError(c, msg) == [c EXCEPT !.panic_mode = TRUE, !.diag = Append(@, msg)]

\* second is <<>> for None and <<op>> for Some(op)
EmitSimpleOp(c, code, second) ==
  LET first == ChunkWrite(c.chunk, code, c.current.line)
  IN  [c EXCEPT !.chunk = IF second = <<>> THEN first
                          ELSE ChunkWrite(first, second[1], c.current.line)]

EmitConstant(c, value) ==
  EmitSimpleOp([c EXCEPT !.chunk = AddConstant(@, value)],
               OpConstant(Len(c.chunk.values)), <<>>)

RECURSIVE CompPrecedence(_, _), CompInfixLoop(_, _)

CompExpression(c) == CompPrecedence(c, PrecAssignment)

CompLiteral(c) == EmitSimpleOp(c, Op(c.prev.kind), <<>>)

CompNumber(c) == EmitConstant(c, VNumber(c.prev.slice.n))

CompString(c) ==
  EmitConstant([c EXCEPT !.chunk = AddObj(@, c.prev.slice.s)], VObj(Len(c.chunk.heap)))

CompGrouping(c) ==
  LET Eaten(e) == IF e.ok THEN e.c ELSE CompError(e.c, "Expected closing paren")
      inner == CompExpression(c)
  IN  Eaten(CompEat(inner, "RightParen"))

CompUnary(c) ==
  LET op == c.prev.kind
      r == CompPrecedence(c, PrecUnary)
  IN  CASE op = "Minus" -> EmitSimpleOp(r, Op("Negate"), <<>>)
        [] op = "Bang" -> EmitSimpleOp(r, Op("Not"), <<>>)
        [] OTHER -> r

\* a binary that compiles its right operand at the level of its operator
CompBinaryRight(c) ==
  LET op == c.prev.kind
      r == CompPrecedence(c, DeterminePrecedence(op))
  IN  CASE op = "Plus" -> EmitSimpleOp(r, Op("Add"), <<>>)
        [] op = "Minus" -> EmitSimpleOp(r, Op("Sub"), <<>>)
        [] op = "Star" -> EmitSimpleOp(r, Op("Mul"), <<>>)
        [] op = "Slash" -> EmitSimpleOp(r, Op("Div"), <<>>)
        [] op = "BangEq" -> EmitSimpleOp(r, Op("Eq"), <<Op("Not")>>)
        [] op = "EqEq" -> EmitSimpleOp(r, Op("Eq"), <<>>)
        [] op = "Greater" -> EmitSimpleOp(r, Op("Gtr"), <<>>)
        [] op = "GreaterEq" -> EmitSimpleOp(r, Op("Less"), <<Op("Not")>>)
        [] op = "Less" -> EmitSimpleOp(r, Op("Less"), <<>>)
        [] op = "LessEq" -> EmitSimpleOp(r, Op("Gtr"), <<Op("Not")>>)
        [] OTHER -> r

CompBinary(c) ==
  LET op == c.prev.kind
      r == CompPrecedence(c, DeterminePrecedence(op) + 1)
  IN  CASE op = "Plus" -> EmitSimpleOp(r, Op("Add"), <<>>)
        [] op = "Minus" -> EmitSimpleOp(r, Op("Sub"), <<>>)
        [] op = "Star" -> EmitSimpleOp(r, Op("Mul"), <<>>)
        [] op = "Slash" -> EmitSimpleOp(r, Op("Div"), <<>>)
        [] op = "BangEq" -> EmitSimpleOp(r, Op("Eq"), <<Op("Not")>>)
        [] op = "EqEq" -> EmitSimpleOp(r, Op("Eq"), <<>>)
        [] op = "Greater" -> EmitSimpleOp(r, Op("Gtr"), <<>>)
        [] op = "GreaterEq" -> EmitSimpleOp(r, Op("Less"), <<Op("Not")>>)
        [] op = "Less" -> EmitSimpleOp(r, Op("Less"), <<>>)
        [] op = "LessEq" -> EmitSimpleOp(r, Op("Gtr"), <<Op("Not")>>)
        [] OTHER -> r

\* the parse function Compiler::prefix returns for prev.kind
CompPrefix(c) ==
  CASE c.prev.kind = "LeftParen" -> CompGrouping(c)
    [] c.prev.kind \in {"Minus", "Bang"} -> CompUnary(c)
    [] c.prev.kind = "Number" -> CompNumber(c)
    [] c.prev.kind = "String" -> CompString(c)
    [] c.prev.kind \in {"True", "False", "Nil"} -> CompLiteral(c)

\* the while loop of precedence; nothing runs once the process is dead.  A
\* pass that leaves the scanner, prev and current as it found them is
\* followed by the same pass for ever: halt is "Loop"
CompInfixLoop(c, precedence) ==
  LET Again(b) ==
        IF b.halt = "None" /\ b.sc = c.sc /\ b.toks = c.toks /\ b.prev = c.prev
           /\ b.current = c.current
        THEN [b EXCEPT !.halt = "Loop"]
        ELSE CompInfixLoop(b, precedence)
      a == CompAdvance(c)
  IN  IF c.halt # "None" THEN c
      ELSE IF precedence <= DeterminePrecedence(c.current.kind)
      THEN IF a.halt # "None" THEN a
           ELSE IF a.prev.kind \in InfixKinds THEN Again(CompBinary(a))
           ELSE CompError(a, "Expect infix expression")
      ELSE c

\* precedence: a call more is open while it runs
CompPrecedence(c, precedence) ==
  LET a == CompAdvance([c EXCEPT !.depth = @ + 1,
                                 !.deepest = IF c.depth + 1 > @ THEN c.depth + 1 ELSE @])
      Leave(r) == [r EXCEPT !.depth = c.depth]
  IN  IF c.halt # "None" THEN c
      ELSE IF c.depth >= MaxDepth THEN [c EXCEPT !.halt = "Overflow"]
      ELSE IF a.halt # "None" THEN a
      ELSE IF a.prev.kind \in PrefixKinds THEN Leave(CompInfixLoop(CompPrefix(a), precedence))
      ELSE Leave(CompError(a, "Expect prefix expression"))

\* Compiler::compile from advance on: advance, expression, eat(Eof),
\* emit_return
CompileFrom(c) ==
  LET e == CompExpression(CompAdvance(c))
  IN  EmitSimpleOp(CompEat(e, "Eof").c, Op("Return"), <<>>)

\* the compiler of a source that is a sequence of tokens
Compile(toks) == CompileFrom(CompilerNew(toks))

\* Compiler::new(source).compile() on a source of characters
CompileSource(src) == CompileFrom(CompilerOver(src))

\* prog, pc, int, last: the tree-walk interpreter and the statements it is
\* given; source, vm, out: the source handed to VM::interpret, the VM
\* (chunk, ip, stack and how far interpret has come) and what it printed
\* chunk, pushed, got: a Chunk that is written to, the lines written so far
\* and the last index asked of chunk.lines with the answer
\* scanner, items: a Scanner of roxc and what its next has returned so far
VARIABLES prog, pc, int, last, source, vm, out, chunk, pushed, got, scanner, items,
          text, parser, running, yielded, tree, resolver, passes, indent, buffer, submitted,
          reads, prompt, input, compiled, chain, removed, ascended

rlVars == <<chunk, pushed, got>>

scanVars == <<scanner, items>>

parseVars == <<text, parser, running, yielded>>

resolveVars == <<tree, resolver, passes>>

replVars == <<indent, buffer, submitted, reads, prompt>>

compileVars == <<input, compiled>>

envVars == <<chain, removed, ascended>>

frontVars == <<parseVars, resolveVars, replVars, compileVars, envVars>>

vars == <<prog, pc, int, last, source, vm, out, rlVars, scanVars, frontVars>>

VMDefault == [chunk |-> ChunkDefault, ip |-> 0, stack |-> <<>>, at |-> "new"]

\* no source is given to the VM
VMUnused == source = <<>> /\ vm = VMDefault /\ out = <<>>

\* no Chunk is written to
RunListUnused == chunk = ChunkDefault /\ pushed = <<>> /\ got = [t |-> "None"]

\* no Scanner of roxc is made
ScannerUnused == scanner = ScannerNew(<<>>) /\ items = <<>>

\* no source is given to Lox::run of roxi
ParserUnused ==
  /\ text = <<>>
  /\ parser = ParserNew(LoxScannerNew(<<>>).sc)
  /\ running = "Idle"
  /\ yielded = <<>>

\* no program is given to the resolver
ResolverUnused == tree = <<>> /\ resolver = ResolverNew /\ passes = <<>>

\* no prompt is running
ReplUnused ==
  indent = 0 /\ buffer = <<>> /\ submitted = <<>> /\ reads = 0 /\ prompt = <<>>

\* no source is given to the compiler on its own
CompilerUnused == input = <<>> /\ compiled = [t |-> "None"]

\* no Env is used on its own
EnvUnused == chain = EnvRoot /\ removed = <<>> /\ ascended = "None"

FrontUnused == ParserUnused /\ ResolverUnused /\ ReplUnused /\ CompilerUnused /\ EnvUnused

\* no statement is given to the tree-walk interpreter
InterpUnused == prog = <<>> /\ pc = 1 /\ int = NewInterpreter /\ last = "None"

InterpInit ==
  /\ \/ \E n \in 0..MaxCalls : prog = CounterProgram(n)
     \/ \E n \in 0..MaxFib : prog = FibProgram(n)
     \/ \E i \in 1..Len(ArgValues), b \in BOOLEAN : prog = ThisProgram(ArgValues[i], b)
     \/ \E n \in 0..2, m \in 0..2, i \in 1..Len(ArgValues) : prog = InitProgram(n, m, ArgValues[i])
     \/ \E e \in {"normal", "return", "error"} : prog = InitExitProgram(e)
     \/ \E v \in 0..MaxVal, f \in BOOLEAN : prog = ExitProgram(v, f)
     \/ \E c \in {"f", "k.m", "mod", "clock"}, m \in 0..3 : prog = ArityProgram(c, m)
     \/ \E v \in 1..MaxVal : prog = ScopeProgram(v)
  /\ pc = 1
  /\ int = NewInterpreter
  /\ last = "None"
  /\ VMUnused
  /\ RunListUnused
  /\ ScannerUnused
  /\ FrontUnused

\* the driver of the tests: while let Some(stmt) = parser.next()
\* { int.interpret(&stmt).unwrap(); }
RunStatement ==
  /\ pc <= Len(prog)
  /\ last \in {"None", "Ok"}
  /\ LET r == Interpret(prog[pc], [int EXCEPT !.calls = <<>>])
     IN  /\ int' = r.st
         /\ last' = r.t
         /\ pc' = pc + 1
  /\ UNCHANGED <<prog, source, vm, out, rlVars, scanVars, frontVars>>

InterpNext == RunStatement

InterpSpec == InterpInit /\ [][InterpNext]_vars

(***************************************************************************)
(* The VM (src/roxc/src/vm.rs).  vm.at is "new" before interpret, "run"    *)
(* inside the loop of run, "ok" after run returned Ok, "runtime" after it  *)
(* returned Error::Runtime and "panic" when the process aborted.           *)
(***************************************************************************)
\* the instruction the loop of run is about to execute
Inst == vm.chunk.code[vm.ip + 1]

Running == vm.at = "run" /\ vm.ip < Len(vm.chunk.code)

Top == vm.stack[Len(vm.stack)]

\* the value under the top of the stack
Under == vm.stack[Len(vm.stack) - 1]

\* the stack without its n topmost values
Popped(n) == SubSeq(vm.stack, 1, Len(vm.stack) - n)

OperandsMatch ==
  /\ Len(vm.stack) >= 2
  /\ Top.t = Under.t

\* the step that executes an instruction with the new stack
Push(stack) == vm' = [vm EXCEPT !.ip = @ + 1, !.stack = stack]

\* a runtime_err that has popped the two operands
RuntimeErrorPopping == vm' = [vm EXCEPT !.ip = @ + 1, !.stack = Popped(2), !.at = "runtime"]

\* return self.runtime_err(msg)
RuntimeError == vm' = [vm EXCEPT !.ip = @ + 1, !.at = "runtime"]

\* panic!, unimplemented!, an index out of bounds
Abort == vm' = [vm EXCEPT !.ip = @ + 1, !.at = "panic"]

\* a binary instruction whose operands do not match: stack.len() - 2
\* overflows on a stack of fewer than two values, which aborts a build with
\* overflow checks and yields None, hence false, in a build without
Unmatched ==
  /\ ~OperandsMatch
  /\ \/ RuntimeError
     \/ Len(vm.stack) < 2 /\ Abort

\* the text print_value writes for a value
FormatValue(stack) ==
  IF stack = <<>> THEN Nil
  ELSE LET v == stack[Len(stack)]
       IN  CASE v.t = "Number" -> NumberF(v.n)
             [] v.t = "Boolean" -> Bool(v.b)
             [] v.t = "Nil" -> Nil
             [] v.t = "Obj" -> StringV(vm.chunk.heap[v.idx + 1])

\* VM::interpret up to the loop of run; a compiler that does not return
\* ends the process
VMInterpret ==
  /\ vm.at = "new"
  /\ source # <<>>
  /\ \E c \in {Compile(RoxcScan(source))} :
       vm' = IF c.halt = "None" THEN [vm EXCEPT !.chunk = c.chunk, !.ip = 0, !.at = "run"]
             ELSE [vm EXCEPT !.at = "panic"]
  /\ UNCHANGED <<prog, pc, int, last, source, out, rlVars, scanVars, frontVars>>

\* a Return that leaves the value on the stack
VMReturnPeeks ==
  /\ Running /\ Inst.op = "Return"
  /\ out' = Append(out, FormatValue(vm.stack))
  /\ vm' = [vm EXCEPT !.ip = @ + 1, !.at = "ok"]
  /\ UNCHANGED <<prog, pc, int, last, source, rlVars, scanVars, frontVars>>

VMReturn ==
  /\ Running /\ Inst.op = "Return"
  /\ out' = Append(out, FormatValue(vm.stack))
  /\ vm' = [vm EXCEPT !.ip = @ + 1, !.stack = Popped(IF vm.stack = <<>> THEN 0 ELSE 1),
                      !.at = "ok"]
  /\ UNCHANGED <<prog, pc, int, last, source, rlVars, scanVars, frontVars>>

VMConstant ==
  /\ Running /\ Inst.op = "Constant"
  /\ IF Inst.idx < Len(vm.chunk.values)
     THEN Push(Append(vm.stack, vm.chunk.values[Inst.idx + 1]))
     ELSE Abort
  /\ UNCHANGED <<prog, pc, int, last, source, out, rlVars, scanVars, frontVars>>

VMNegate ==
  /\ Running /\ Inst.op = "Negate"
  /\ IF vm.stack # <<>> /\ Top.t = "Number"
     THEN Push(Append(Popped(1), VNumber(F64Neg(Top.n))))
     ELSE RuntimeError
  /\ UNCHANGED <<prog, pc, int, last, source, out, rlVars, scanVars, frontVars>>

\* lhs is popped first: for two strings the new heap entry is the string of
\* lhs followed by the string of rhs
VMAdd ==
  /\ Running /\ Inst.op = "Add"
  /\ \/ Unmatched
     \/ /\ OperandsMatch
        /\ LET lhs == Top
               rhs == Under
           IN  CASE lhs.t = "Obj" ->
                      vm' = [vm EXCEPT !.ip = @ + 1,
                                       !.chunk = AddObj(@, vm.chunk.heap[lhs.idx + 1]
                                                           \o vm.chunk.heap[rhs.idx + 1]),
                                       !.stack = Append(Popped(2), VObj(Len(vm.chunk.heap)))]
                 [] lhs.t = "Number" -> Push(Append(Popped(2), VNumber(F64Add(lhs.n, rhs.n))))
                 [] lhs.t = "Nil" -> Push(Append(Popped(2), VNil))
                 [] OTHER -> Abort
  /\ UNCHANGED <<prog, pc, int, last, source, out, rlVars, scanVars, frontVars>>

\* Sub, Mul, Div: push rhs op lhs, with lhs popped first
VMArith ==
  /\ Running /\ Inst.op \in {"Sub", "Mul", "Div"}
  /\ \/ Unmatched
     \/ /\ OperandsMatch
        /\ LET lhs == Top
               rhs == Under
           IN  IF lhs.t = "Number"
               THEN Push(Append(Popped(2),
                                VNumber(CASE Inst.op = "Sub" -> F64Sub(rhs.n, lhs.n)
                                          [] Inst.op = "Mul" -> F64Mul(rhs.n, lhs.n)
                                          [] Inst.op = "Div" -> F64Div(rhs.n, lhs.n))))
               ELSE Abort
  /\ UNCHANGED <<prog, pc, int, last, source, out, rlVars, scanVars, frontVars>>

\* True, False, Nil
VMLiteral ==
  /\ Running /\ Inst.op \in {"True", "False", "Nil"}
  /\ Push(Append(vm.stack, CASE Inst.op = "True" -> VBoolean(TRUE)
                             [] Inst.op = "False" -> VBoolean(FALSE)
                             [] Inst.op = "Nil" -> VNil))
  /\ UNCHANGED <<prog, pc, int, last, source, out, rlVars, scanVars, frontVars>>

VMNot ==
  /\ Running /\ Inst.op = "Not"
  /\ IF vm.stack # <<>>
     THEN Push(Append(Popped(1), CASE Top.t = "Boolean" -> VBoolean(~Top.b)
                                   [] Top.t = "Nil" -> VBoolean(TRUE)
                                   [] OTHER -> VBoolean(FALSE)))
     ELSE RuntimeError
  /\ UNCHANGED <<prog, pc, int, last, source, out, rlVars, scanVars, frontVars>>

\* an Eq that compares two objects by their heap index
VMEqByIndex ==
  /\ Running /\ Inst.op = "Eq"
  /\ Len(vm.stack) >= 2
  /\ Push(Append(Popped(2), VBoolean(Top = Under)))
  /\ UNCHANGED <<prog, pc, int, last, source, out, rlVars, scanVars, frontVars>>

\* two objects are equal when their heap entries are, other values when
\* the derived PartialEq says so
VMEq ==
  /\ Running /\ Inst.op = "Eq"
  /\ IF Len(vm.stack) < 2
     THEN vm' = [vm EXCEPT !.ip = @ + 1, !.stack = <<>>, !.at = "runtime"]
     ELSE LET lhs == Top
              rhs == Under
              b == CASE lhs.t = "Obj" /\ rhs.t = "Obj" ->
                          vm.chunk.heap[lhs.idx + 1] = vm.chunk.heap[rhs.idx + 1]
                     [] lhs.t = "Number" /\ rhs.t = "Number" -> F64Eq(lhs.n, rhs.n)
                     [] lhs.t = "Boolean" /\ rhs.t = "Boolean" -> lhs.b = rhs.b
                     [] lhs.t = "Nil" /\ rhs.t = "Nil" -> TRUE
                     [] OTHER -> FALSE
          IN  Push(Append(Popped(2), VBoolean(b)))
  /\ UNCHANGED <<prog, pc, int, last, source, out, rlVars, scanVars, frontVars>>

\* Value::Boolean(lhs < rhs) with lhs popped first; partial_cmp is None for
\* values that are not both numbers
VMLess ==
  /\ Running /\ Inst.op = "Less"
  /\ \/ Unmatched
     \/ /\ OperandsMatch
        /\ Push(Append(Popped(2), VBoolean(Top.t = "Number" /\ F64Lt(Top.n, Under.n))))
  /\ UNCHANGED <<prog, pc, int, last, source, out, rlVars, scanVars, frontVars>>

VMGtr ==
  /\ Running /\ Inst.op = "Gtr"
  /\ \/ Unmatched
     \/ /\ OperandsMatch
        /\ Push(Append(Popped(2), VBoolean(Top.t = "Number" /\ F64Gt(Top.n, Under.n))))
  /\ UNCHANGED <<prog, pc, int, last, source, out, rlVars, scanVars, frontVars>>

\* the literals of the sources
Leaves ==
  {LxNum(n) : n \in 0..MaxVal}
  \cup {LxStr("a"), LxStr("b"), Lx("true"), Lx("false"), Lx("nil")}

Numerals == {LxNum(n) : n \in 1..MaxVal}

BinaryLx == {Lx(o) : o \in {"+", "-", "*", "/", "==", "!=", "<", "<=", ">", ">="}}

UnaryLx == {Lx("-"), Lx("!")}

\* sources that are no expression: + l | l op | l r | ( l | ) | ( l + r
Malformed ==
  {<<Lx("+"), l>> : l \in Leaves}
  \cup {<<l, o>> : l \in Leaves, o \in BinaryLx}
  \cup {<<l, r>> : l \in Leaves, r \in Leaves}
  \cup {<<Lx("("), l>> : l \in Leaves}
  \cup {<<Lx(")")>>}
  \cup {<<Lx("("), l, Lx("+"), r>> : l \in Leaves, r \in Leaves}

\* l | u l | l op r | u l op r | l op m op r | l op ( m op r ) | ! ( l != r )
\* and the malformed sources
Sources ==
  Malformed \cup
  {<<l>> : l \in Leaves}
  \cup {<<u, l>> : u \in UnaryLx, l \in Leaves}
  \cup {<<l, o, r>> : l \in Leaves, o \in BinaryLx, r \in Leaves}
  \cup {<<u, l, o, r>> : u \in UnaryLx, l \in Numerals \cup {Lx("true")}, o \in BinaryLx,
                         r \in Numerals \cup {Lx("true")}}
  \cup {<<l, o, m, q, r>> : l \in Numerals, o \in BinaryLx, m \in Numerals, q \in BinaryLx,
                            r \in Numerals}
  \cup {<<l, o, Lx("("), m, q, r, Lx(")")>> :
          l \in Numerals, o \in BinaryLx, m \in Numerals, q \in BinaryLx, r \in Numerals}
  \cup {<<Lx("!"), Lx("("), l, Lx("!="), r, Lx(")")>> : l \in Leaves, r \in Leaves}

VMInit ==
  /\ source \in Sources
  /\ vm = VMDefault
  /\ out = <<>>
  /\ InterpUnused
  /\ RunListUnused
  /\ ScannerUnused
  /\ FrontUnused

VMNext ==
  \/ VMInterpret
  \/ VMReturn
  \/ VMConstant
  \/ VMNegate
  \/ VMAdd
  \/ VMArith
  \/ VMLiteral
  \/ VMNot
  \/ VMEq
  \/ VMLess
  \/ VMGtr

VMSpec == VMInit /\ [][VMNext]_vars

(***************************************************************************)
(* roxi: the driver Lox::run over the statements its parser yields.        *)
(* roxi's Env is a stack of frames, the base frame first; descend pushes   *)
(* an empty frame and ascend pops it; get and assign use the innermost     *)
(* frame that holds the name and define writes to the innermost frame;     *)
(* split_to_base detaches the frames above the base, append attaches       *)
(* frames, clone_to_base copies the frames above the base.                 *)
(***************************************************************************)
MaxStmts == 2

RoxiEnvRoot == <<EmptyMap>>

RoxiDescend(env) == Append(env, EmptyMap)

RoxiAscend(env) == IF Len(env) > 1 THEN Front(env) ELSE env

\* out is what println! has written
RoxiNewInterpreter == [env |-> RoxiEnvRoot, closures |-> <<>>, out |-> <<>>]

RoxiEnvFrames(env, name) == {j \in 1..Len(env) : name \in DOMAIN env[j]}

RoxiEnvInnermost(env, name) ==
  CHOOSE j \in RoxiEnvFrames(env, name) : \A k \in RoxiEnvFrames(env, name) : k <= j

RoxiEnvGet(env, name) ==
  IF RoxiEnvFrames(env, name) = {} THEN [ok |-> FALSE, v |-> Nil]
  ELSE [ok |-> TRUE, v |-> env[RoxiEnvInnermost(env, name)][name]]

RoxiEnvAssign(env, name, v) ==
  IF RoxiEnvFrames(env, name) = {} THEN [ok |-> FALSE, env |-> env]
  ELSE [ok |-> TRUE,
        env |-> [env EXCEPT ![RoxiEnvInnermost(env, name)] = MapInsert(@, name, v)]]

RoxiEnvDefine(env, name, v) == [env EXCEPT ![Len(env)] = MapInsert(@, name, v)]

RoxiSplitToBase(env) == [env |-> <<Head(env)>>, tail |-> Tail(env)]

RoxiAppend(env, frames) == env \o frames

RoxiCloneToBase(env) == Tail(env)

\* Value::Func(Func { name, params, body, env, .. })
RoxiFunc(name, params, body, env) ==
  [t |-> "Func", name |-> name, params |-> params, body |-> body, env |-> env]

RECURSIVE RoxiEvaluate(_, _), RoxiInterpret(_, _), RoxiExecList(_, _, _),
          RoxiEvalArgs(_, _, _), RoxiFuncCall(_, _, _)

\* handle_callable: the arity is compared before the call
RoxiHandleCallable(f, args, st) ==
  IF Len(f.params) # Len(args)
  THEN RuntimeErr(st, "was expecting a different number of arguments")
  ELSE RoxiFuncCall(f, args, st)

\* visit_call: the callee, then the arguments from left to right
RoxiVisitCall(e, st) ==
  LET Called(callee, a) ==
        CASE a.t # "Ok" -> a
          [] a.t = "Ok" /\ callee.t = "Func" -> RoxiHandleCallable(callee, a.v, a.st)
          [] OTHER -> RuntimeErr(a.st, "Attempt to call a something that is not a function")
      Args(c) ==
        IF c.t # "Ok" THEN c
        ELSE Called(c.v, RoxiEvalArgs(e.arguments, Len(e.arguments), c.st))
  IN  Args(RoxiEvaluate(e.callee, st))

\* visit_assign: a function that is assigned keeps its name
RoxiVisitAssign(e, st) ==
  LET Store(val) ==
        IF val.t # "Ok" THEN val
        ELSE LET a == RoxiEnvAssign(val.st.env, e.name, val.v)
             IN  IF a.ok THEN Ok([val.st EXCEPT !.env = a.env], val.v)
                 ELSE RuntimeErr(val.st, "variable is not yet defined")
  IN  Store(RoxiEvaluate(e.value, st))

\* visit_bin for `+`
RoxiVisitBin(e, st) ==
  LET Right(l, r) ==
        CASE r.t # "Ok" -> r
          [] r.t = "Ok" /\ e.op = "Plus" /\ l.v.t = "Number" /\ r.v.t = "Number" ->
               Ok(r.st, NumberF(F64Add(l.v.n, r.v.n)))
          [] OTHER -> RuntimeErr(r.st, "Invalid binary operation")
      Left(l) == IF l.t # "Ok" THEN l ELSE Right(l, RoxiEvaluate(e.right, l.st))
  IN  Left(RoxiEvaluate(e.left, st))

\* visit_lit, visit_group, visit_var, visit_assign, visit_bin, visit_call,
\* visit_un
RoxiEvaluate(e, st) ==
  CASE e.k = "Literal" -> Ok(st, e.v)
    [] e.k = "Grouping" -> RoxiEvaluate(e.inner, st)
    [] e.k = "Var" ->
         IF RoxiEnvGet(st.env, e.name).ok THEN Ok(st, RoxiEnvGet(st.env, e.name).v)
         ELSE RuntimeErr(st, "variable is not yet defined")
    [] e.k = "Assign" -> RoxiVisitAssign(e, st)
    [] e.k = "Binary" -> RoxiVisitBin(e, st)
    [] e.k = "Call" -> RoxiVisitCall(e, st)
    [] e.k = "Unary" ->
         LET right == RoxiEvaluate(e.right, st)
             truthy == ~(right.v.t = "Nil") /\ (right.v.t = "Bool" => right.v.b)
         IN  CASE right.t # "Ok" -> right
               [] right.t = "Ok" /\ e.op = "Minus" /\ right.v.t = "Number" ->
                    Ok(right.st, NumberF(F64Neg(right.v.n)))
               [] right.t = "Ok" /\ e.op = "Plus" /\ right.v.t = "Number" -> right
               [] right.t = "Ok" /\ e.op = "Bang" -> Ok(right.st, Bool(~truthy))
               [] OTHER -> RuntimeErr(right.st, "Invalid unary operation")

\* the arguments of a call, the first error ends their evaluation
RoxiEvalArgs(arguments, i, st) ==
  IF i <= 0 THEN Ok(st, <<>>)
  ELSE LET Next(r) ==
             IF r.t # "Ok" THEN r
             ELSE LET One(a) == IF a.t # "Ok" THEN a ELSE Ok(a.st, Append(r.v, a.v))
                  IN  One(RoxiEvaluate(arguments[i], r.st))
       IN  Next(RoxiEvalArgs(arguments, i - 1, st))

\* the loop of execute_block: the first error ends it
RoxiExecList(stmts, i, st) ==
  IF i <= 0 THEN Ok(st, Nil)
  ELSE LET r == RoxiExecList(stmts, i - 1, st)
       IN  IF r.t # "Ok" THEN r ELSE RoxiInterpret(stmts[i], r.st)

RoxiExecuteBlock(stmts, st) ==
  [RoxiExecList(stmts, Len(stmts), [st EXCEPT !.env = RoxiDescend(@)])
     EXCEPT !.st.env = RoxiAscend(@)]

RoxiVisitReturnStmt(s, st) ==
  IF s.has
  THEN [RoxiEvaluate(s.e, st) EXCEPT !.t = IF @ = "Ok" THEN "Return" ELSE @]
  ELSE ReturnErr(st, Nil)

RoxiVisitIfStmt(s, st) ==
  LET boolean == RoxiEvaluate(s.test, st)
      truthy == ~(boolean.v.t = "Nil") /\ (boolean.v.t = "Bool" => boolean.v.b)
  IN  CASE boolean.t # "Ok" -> boolean
        [] boolean.t = "Ok" /\ truthy -> RoxiInterpret(s.cons, boolean.st)
        [] boolean.t = "Ok" /\ ~truthy /\ s.has -> RoxiInterpret(s.alt, boolean.st)
        [] OTHER -> Ok(boolean.st, Nil)

\* visit_var_stmt: a function takes the name of the variable
RoxiVisitVarStmt(s, st) ==
  LET Bind(val) ==
        IF val.t \notin {"Ok", "Return"} THEN val
        ELSE Ok([val.st EXCEPT !.env =
                   RoxiEnvDefine(@, s.name,
                                 IF val.v.t = "Func" THEN [val.v EXCEPT !.name = s.name]
                                 ELSE val.v)],
                Nil)
  IN  IF s.has THEN Bind(RoxiEvaluate(s.value, st))
      ELSE Ok([st EXCEPT !.env = RoxiEnvDefine(@, s.name, Nil)], Nil)

\* visit_func_decl
RoxiVisitFuncDecl(s, st) ==
  Ok([st EXCEPT !.env =
        RoxiEnvDefine(@, s.f.name,
                      RoxiFunc(s.f.name, s.f.params, s.f.body, RoxiCloneToBase(st.env)))],
     Nil)

\* Interpreter::interpret: stmt.accept(self), the error passed on by `?`
RoxiInterpret(s, st) ==
  CASE s.k = "Expr" ->
         LET r == RoxiEvaluate(s.e, st)
         IN  IF r.t = "Ok" THEN Ok(r.st, Nil) ELSE r
    [] s.k = "Print" ->
         LET r == RoxiEvaluate(s.e, st)
         IN  IF r.t = "Ok" THEN Ok([r.st EXCEPT !.out = Append(@, r.v)], Nil) ELSE r
    [] s.k = "Block" -> RoxiExecuteBlock(s.list, st)
    [] s.k = "If" -> RoxiVisitIfStmt(s, st)
    [] s.k = "Return" -> RoxiVisitReturnStmt(s, st)
    [] s.k = "Var" -> RoxiVisitVarStmt(s, st)
    [] s.k = "Func" -> RoxiVisitFuncDecl(s, st)

\* the parameters are defined in the innermost frame, in their order
RECURSIVE RoxiDefineParams(_, _, _, _)
RoxiDefineParams(env, params, args, i) ==
  IF i > Len(params) \/ i > Len(args) THEN env
  ELSE RoxiDefineParams(RoxiEnvDefine(env, params[i], args[i]), params, args, i + 1)

\* Func::call: the frames of the caller are detached and the captured ones
\* attached, the body is run, the function takes the frames above the base
\* as its captured ones, the frames of the caller are attached to the base
\* again, and the function is assigned to the variable of its name
RoxiFuncCall(f, args, st) ==
  LET split == RoxiSplitToBase(st.env)
      entry == RoxiDefineParams(RoxiAppend(split.env, f.env), f.params, args, 1)
      Back(b) ==
        LET self == [f EXCEPT !.env = RoxiCloneToBase(b.st.env)]
            assigned == RoxiEnvAssign(RoxiAppend(<<Head(b.st.env)>>, split.tail),
                                      self.name, self)
            after == [b.st EXCEPT !.env = assigned.env]
        IN  CASE ~assigned.ok -> RuntimeErr(after, "variable is not yet defined")
              [] assigned.ok /\ b.t = "Ok" -> Ok(after, Nil)
              [] assigned.ok /\ b.t = "Return" -> Ok(after, b.v)
              [] OTHER -> [b EXCEPT !.st = after]
  IN  Back(RoxiExecuteBlock(f.body, [st EXCEPT !.env = entry]))

\* the statements Parser::statement yields here: `return` is accepted at
\* any nesting, the top level included
RoxiSimple ==
  {ExprS(Literal(Number(1))), PrintS(Unary("Bang", Literal(Nil))),
   ExprS(Unary("Minus", Literal(Bool(TRUE)))),
   ReturnNone, Return(Literal(Number(1))), Return(Unary("Minus", Literal(Nil)))}

RoxiStatements ==
  RoxiSimple
  \cup {Block(<<a, b>>) : a \in {ExprS(Literal(Number(1)))}, b \in RoxiSimple}
  \cup {If(Literal(Bool(t)), a) : t \in BOOLEAN, a \in {ReturnNone, PrintS(Literal(Nil))}}
  \cup {IfElse(Literal(Nil), PrintS(Literal(Nil)), a) : a \in {ReturnNone}}

RoxiPrograms ==
  UNION {[1..n -> RoxiStatements] : n \in 1..MaxStmts}

RoxiInit ==
  /\ prog \in RoxiPrograms
  /\ pc = 1
  /\ int = RoxiNewInterpreter
  /\ last = "None"
  /\ VMUnused
  /\ RunListUnused
  /\ ScannerUnused
  /\ FrontUnused

\* one turn of the loop of Lox::run: `int.interpret(&mut stmt)?`
LoxRun ==
  /\ pc <= Len(prog)
  /\ last \in {"None", "Ok"}
  /\ LET r == RoxiInterpret(prog[pc], int)
     IN  /\ int' = r.st
         /\ last' = r.t
         /\ pc' = pc + 1
  /\ UNCHANGED <<prog, source, vm, out, rlVars, scanVars, frontVars>>

RoxiNext == LoxRun

RoxiSpec == RoxiInit /\ [][RoxiNext]_vars

(***************************************************************************)
(* roxi on programs that call functions through variables: after the       *)
(* declarations of makeCounter and apply, statements that bind, alias,     *)
(* assign and call.                                                        *)
(***************************************************************************)
MaxCallStmts == 4

\* fun makeCounter() { var i = 0; fun count() { i = i + 1; return i; } return count; }
MakeCounterDecl ==
  FuncS("makeCounter", <<>>,
        <<VarS("i", Literal(Number(0))),
          FuncS("count", <<>>,
                <<ExprS(Assign("i", Binary(Var("i"), "Plus", Literal(Number(1))))),
                  Return(Var("i"))>>),
          Return(Var("count"))>>)

\* fun apply(h) { return h(); }
ApplyDecl == FuncS("apply", <<"h">>, <<Return(Call(Var("h"), <<>>))>>)

CallPrelude == <<MakeCounterDecl, ApplyDecl>>

CallNames == {"a", "b"}

CallPairs == {p \in CallNames \X CallNames : p[1] # p[2]}

\* var n = makeCounter();  var n = m;  n = m;  n = makeCounter();  n();
\* apply(n);
CallStatements ==
  {VarS(n, Call(Var("makeCounter"), <<>>)) : n \in CallNames}
  \cup {VarS(p[1], Var(p[2])) : p \in CallPairs}
  \cup {ExprS(Assign(p[1], Var(p[2]))) : p \in CallPairs}
  \cup {ExprS(Assign(n, Call(Var("makeCounter"), <<>>))) : n \in CallNames}
  \cup {ExprS(Call(Var(n), <<>>)) : n \in CallNames \cup {"makeCounter"}}
  \cup {ExprS(Call(Var("apply"), <<Var(n)>>)) : n \in CallNames}

CallPrograms ==
  {CallPrelude \o p : p \in UNION {[1..n -> CallStatements] : n \in 1..MaxCallStmts}}

RoxiCallInit ==
  /\ prog \in CallPrograms
  /\ pc = 1
  /\ int = RoxiNewInterpreter
  /\ last = "None"
  /\ VMUnused
  /\ RunListUnused
  /\ ScannerUnused
  /\ FrontUnused

RoxiCallSpec == RoxiCallInit /\ [][RoxiNext]_vars

(***************************************************************************)
(* Chunk::write and RunList::get_unchecked (src/roxc/src/chunk.rs): a      *)
(* Chunk is written to, one instruction and its line at a time, and its    *)
(* lines are asked for the line of an index.                               *)
(***************************************************************************)
MaxPushes == 4

MaxLine == 3

RunListInit ==
  /\ RunListUnused
  /\ InterpUnused
  /\ VMUnused
  /\ ScannerUnused
  /\ FrontUnused

\* chunk.write(byte, line)
WriteLine ==
  /\ Len(pushed) < MaxPushes
  /\ \E line \in 1..MaxLine :
       /\ chunk' = ChunkWrite(chunk, Op("Return"), line)
       /\ pushed' = Append(pushed, line)
  /\ UNCHANGED <<prog, pc, int, last, source, vm, out, got, scanVars, frontVars>>

\* chunk.lines.get_unchecked(idx)
GetLine ==
  /\ \E idx \in 0..(MaxPushes + 1) :
       got' = [t |-> "Some", idx |-> idx, r |-> GetUnchecked(chunk.lines, idx)]
  /\ UNCHANGED <<prog, pc, int, last, source, vm, out, chunk, pushed, scanVars, frontVars>>

RunListNext ==
  \/ WriteLine
  \/ GetLine

RunListSpec == RunListInit /\ [][RunListNext]_vars

(***************************************************************************)
(* The iterator of the scanner of roxc (src/roxc/src/scanner.rs): a        *)
(* consumer calls next again and again; items are the Some(..) and None it *)
(* was given.  A call that aborts gives nothing.                           *)
(***************************************************************************)
MaxLen == 3

MaxNone == 2

\* the characters of the short sources
ScanSigma == {"i", "f", "1", ".", "\"", " ", "\n", "/", "=", "@", "_", "("}

ShortSources == UNION {[1..n -> ScanSigma] : n \in 0..MaxLen}

\* the keywords and their kinds
Keywords ==
  {[word |-> <<"a", "n", "d">>, kind |-> "And"],
   [word |-> <<"c", "l", "a", "s", "s">>, kind |-> "Class"],
   [word |-> <<"e", "l", "s", "e">>, kind |-> "Else"],
   [word |-> <<"f", "a", "l", "s", "e">>, kind |-> "False"],
   [word |-> <<"f", "o", "r">>, kind |-> "For"],
   [word |-> <<"f", "u", "n">>, kind |-> "Fun"],
   [word |-> <<"i", "f">>, kind |-> "If"],
   [word |-> <<"n", "i", "l">>, kind |-> "Nil"],
   [word |-> <<"o", "r">>, kind |-> "Or"],
   [word |-> <<"p", "r", "i", "n", "t">>, kind |-> "Print"],
   [word |-> <<"r", "e", "t", "u", "r", "n">>, kind |-> "Return"],
   [word |-> <<"s", "u", "p", "e", "r">>, kind |-> "Super"],
   [word |-> <<"t", "h", "i", "s">>, kind |-> "This"],
   [word |-> <<"t", "r", "u", "e">>, kind |-> "True"],
   [word |-> <<"v", "a", "r">>, kind |-> "Var"],
   [word |-> <<"w", "h", "i", "l", "e">>, kind |-> "While"]}

\* what follows the beginning of a keyword in the sources
Extensions == {<<>>, <<"s">>, <<"1">>, <<"_">>, <<" ", "x">>, <<"(">>, <<"\n">>}

\* every beginning of every keyword, followed by an extension
WordSources ==
  UNION {{SubSeq(k.word, 1, n) \o e : n \in 1..Len(k.word), e \in Extensions} :
           k \in Keywords}

Examples ==
  {<<"f", "o", "r", "g", "e", "t">>, <<"i", "f", "r", "i", "t">>, <<"n", "i", "l", "l">>,
   <<"n", "o", "p", "e">>, <<"_", "x">>, <<"a", "_", "b">>, <<"f", "o", "r", "_">>,
   <<"\"", "a", "b">>, <<"\"", "a", "\"">>, <<"1", "+", "@">>}

ScanSources == ShortSources \cup WordSources \cup Examples

\* the scanner of the empty source, before any call of next
ScanInit ==
  /\ ScannerUnused
  /\ FrontUnused
  /\ RunListUnused
  /\ InterpUnused
  /\ VMUnused

\* Scanner::new(s) in place of the scanner of the empty source
NewScanner ==
  /\ ScannerUnused
  /\ \E s \in ScanSources : scanner' = ScannerNew(s)
  /\ UNCHANGED <<prog, pc, int, last, source, vm, out, rlVars, items, frontVars>>

\* a next that does not remember the Eof
IteratorNextForgetful ==
  /\ ~scanner.panic /\ ~scanner.found_eof
  /\ Len(items) < Len(scanner.original) + 1 + MaxNone
  /\ \E n \in {NextToken(scanner)} :
       /\ scanner' = n.sc
       /\ items' = IF n.sc.panic THEN items ELSE Append(items, n.r)
  /\ UNCHANGED <<prog, pc, int, last, source, vm, out, rlVars, frontVars>>

\* Iterator::next before Eof was found: Some(self.next_token()), and
\* found_eof is set when the token is Eof
IteratorNext ==
  /\ ~scanner.panic /\ ~scanner.found_eof
  /\ Len(items) < Len(scanner.original) + 1 + MaxNone
  /\ \E n \in {NextToken(scanner)} :
       /\ scanner' = IF n.r.t = "Ok" /\ n.r.kind = "Eof"
                     THEN [n.sc EXCEPT !.found_eof = TRUE] ELSE n.sc
       /\ items' = IF n.sc.panic THEN items ELSE Append(items, n.r)
  /\ UNCHANGED <<prog, pc, int, last, source, vm, out, rlVars, frontVars>>

\* Iterator::next once Eof was found: None
IteratorNextNone ==
  /\ ~scanner.panic /\ scanner.found_eof
  /\ Len(items) < Len(scanner.original) + 1 + MaxNone
  /\ items' = Append(items, [t |-> "None"])
  /\ UNCHANGED <<prog, pc, int, last, source, vm, out, rlVars, scanner, frontVars>>

ScanNext ==
  \/ NewScanner
  \/ IteratorNext
  \/ IteratorNextNone

ScanSpec == ScanInit /\ [][ScanNext]_vars

(***************************************************************************)
(* Compiler::new(source).compile() on a source of characters: input is the *)
(* source and compiled what became of the call: the chunk returned with    *)
(* what the compiler printed, or the end of the process.                   *)
(***************************************************************************)
MaxSource == 3

\* the characters of the sources
CompileSigma ==
  {"1", "2", "+", "-", "*", "(", ")", "@", " ", "!", "=", "<", "\"", "a", "/"}

CompileExamples ==
  {<<"1", " ", "+", " ", "@">>, <<"1", "+", "2", "*", "2">>, <<"(", "(", "1", ")", ")">>,
   <<"n", "i", "l">>, <<"t", "r", "u", "e">>, <<"1", " ", "/", "/", "a">>,
   <<"1", " ", "/", "/", "a", "\n">>, <<"1", "\n", "+", "\n", "2">>,
   <<"1", "+", "+", "@">>, <<"1", " ", "+">>}

CompileSources == UNION {[1..n -> CompileSigma] : n \in 0..MaxSource} \cup CompileExamples

CompileInit ==
  /\ input \in CompileSources
  /\ compiled = [t |-> "None"]
  /\ EnvUnused
  /\ ParserUnused
  /\ ResolverUnused
  /\ ReplUnused
  /\ ScannerUnused
  /\ RunListUnused
  /\ VMUnused
  /\ InterpUnused

\* the call of compile: it returns the chunk, or the process ends in the
\* scanner or with its stack used up
CompilerCompile ==
  /\ compiled.t = "None"
  /\ \E c \in {CompileSource(input)} :
       compiled' = [t |-> IF c.halt = "None" THEN "Returned" ELSE c.halt,
                    chunk |-> c.chunk,
                    diag |-> c.diag,
                    error |-> c.error,
                    panic_mode |-> c.panic_mode,
                    deepest |-> c.deepest]
  /\ UNCHANGED <<prog, pc, int, last, source, vm, out, rlVars, scanVars, parseVars,
                 resolveVars, replVars, input, envVars>>

CompileNext == CompilerCompile

CompileSpec == CompileInit /\ [][CompileNext]_vars

(***************************************************************************)
(* Env of src/src/env.rs on its own: frames are pushed, bound, detached    *)
(* and attached again.  `chain` is the environment, `removed` holds the    *)
(* frames that ascend_out_of and revert_to have returned to their caller,  *)
(* in the order of the Vec of revert_to, and `ascended` is the result of   *)
(* the last call that returns a Result.                                    *)
(***************************************************************************)
MaxFrames == 4

EnvNames == {"a"}

EnvValues == {Number(1), Number(2)}

EnvInit ==
  /\ chain = EnvRoot
  /\ removed = <<>>
  /\ ascended = "None"
  /\ ParserUnused
  /\ ResolverUnused
  /\ ReplUnused
  /\ CompilerUnused
  /\ ScannerUnused
  /\ RunListUnused
  /\ VMUnused
  /\ InterpUnused

\* Env::descend
Descend ==
  /\ Len(chain) + Len(removed) < MaxFrames
  /\ chain' = EnvDescend(chain)
  /\ UNCHANGED <<prog, pc, int, last, source, vm, out, rlVars, scanVars, parseVars,
                 resolveVars, replVars, compileVars, removed, ascended>>

\* Env::define
Define ==
  /\ \E s \in EnvNames, val \in EnvValues : chain' = EnvDefine(chain, s, val)
  /\ UNCHANGED <<prog, pc, int, last, source, vm, out, rlVars, scanVars, parseVars,
                 resolveVars, replVars, compileVars, removed, ascended>>

\* Env::ascend_out_of; the caller keeps the child that is returned
AscendOutOf ==
  /\ \E r \in {EnvAscendOutOf(chain)} :
       /\ chain' = r.env
       /\ removed' = IF r.ok THEN Append(removed, r.child) ELSE removed
       /\ ascended' = IF r.ok THEN "Ok" ELSE "Runtime"
  /\ UNCHANGED <<prog, pc, int, last, source, vm, out, rlVars, scanVars, parseVars,
                 resolveVars, replVars, compileVars>>

\* Env::revert_to; the caller keeps the frames that are returned
RevertTo ==
  /\ \E depth \in 0..MaxFrames :
       \E r \in {EnvRevertTo(chain, depth)} :
         /\ chain' = r.env
         /\ removed' = IF r.ok THEN removed \o r.envs ELSE removed
         /\ ascended' = IF r.ok THEN "Ok" ELSE "Runtime"
  /\ UNCHANGED <<prog, pc, int, last, source, vm, out, rlVars, scanVars, parseVars,
                 resolveVars, replVars, compileVars>>

\* Env::descend_into with the frame that was detached last but not yet
\* attached again
DescendInto ==
  /\ removed # <<>>
  /\ chain' = EnvDescendInto(chain, Last(removed))
  /\ removed' = Front(removed)
  /\ UNCHANGED <<prog, pc, int, last, source, vm, out, rlVars, scanVars, parseVars,
                 resolveVars, replVars, compileVars, ascended>>

EnvNext == Descend \/ Define \/ AscendOutOf \/ RevertTo \/ DescendInto

EnvSpec == EnvInit /\ [][EnvNext]_vars

(***************************************************************************)
(* Lox::run of roxi (src/roxi/src/lib.rs) on a source: Scanner::new and    *)
(* Parser::new, then one step for each iteration of its loop over          *)
(* Parser::next.  text is the source, yielded the items the parser has       *)
(* yielded, and running is "Idle" before run, "Running" in its loop,       *)
(* "Done" when the loop has ended, "Failed" when run has returned an Err   *)
(* and "Hang" when sync never returns.  What the interpreter does with a   *)
(* statement is left open: it returns Ok or an Err.                        *)
(***************************************************************************)
MaxLexemes == 3

MaxIters == 4

Id(name) == LxIdent(name)

NL == Lx("\n")

RECURSIVE SeqsUpTo(_, _)

\* the sequences over S of length up to n
SeqsUpTo(S, n) ==
  IF n = 0 THEN {<<>>}
  ELSE LET shorter == SeqsUpTo(S, n - 1)
       IN  shorter \cup {Append(s, x) : s \in shorter, x \in S}

\* sources that end anywhere: in a token, in white space, in a string that
\* is not closed, after a character that starts no token
LexSigma == {Lx("print"), LxNum(1), Lx(";"), NL, Lx("\""), Lx("@")}

ShortTexts == SeqsUpTo(LexSigma, MaxLexemes)

\* left-hand sides of an assignment, each with the expression it is
AssignTargets ==
  {[lx |-> <<Id("a")>>, tree |-> Var("a")],
   [lx |-> <<Id("a"), Lx("."), Id("b")>>, tree |-> Get(Var("a"), "b")],
   [lx |-> <<Lx("this"), Lx("."), Id("b")>>, tree |-> Get(This, "b")],
   [lx |-> <<Id("f"), Lx("("), Lx(")"), Lx("."), Id("b")>>,
    tree |-> Get(Call(Var("f"), <<>>), "b")],
   [lx |-> <<Lx("this")>>, tree |-> This],
   [lx |-> <<LxNum(1)>>, tree |-> Literal(Number(1))],
   [lx |-> <<LxStr("s")>>, tree |-> Literal(StringV("s"))],
   [lx |-> <<Lx("nil")>>, tree |-> Literal(Nil)],
   [lx |-> <<Id("f"), Lx("("), Lx(")")>>, tree |-> Call(Var("f"), <<>>)],
   [lx |-> <<Id("a"), Lx("."), Id("b"), Lx("("), Id("c"), Lx(")")>>,
    tree |-> Call(Get(Var("a"), "b"), <<Var("c")>>)],
   [lx |-> <<Id("a"), Lx("+"), Id("b")>>, tree |-> Binary(Var("a"), "Plus", Var("b"))],
   [lx |-> <<Id("a"), Lx("=="), Id("b")>>,
    tree |-> Binary(Var("a"), "EqualEqual", Var("b"))],
   [lx |-> <<Lx("-"), Id("a")>>, tree |-> Unary("Minus", Var("a"))],
   [lx |-> <<Lx("("), Id("a"), Lx(")")>>, tree |-> Grouping(Var("a"))]}

\* right-hand sides, each with the expression it is when assignment is
\* right-associative
AssignValues ==
  {[lx |-> <<Id("c")>>, tree |-> Var("c")],
   [lx |-> <<LxNum(2)>>, tree |-> Literal(Number(2))],
   [lx |-> <<Id("b"), Lx("="), Id("c")>>, tree |-> Assign("b", Var("c"))],
   [lx |-> <<Id("b"), Lx("."), Id("x"), Lx("="), Id("c")>>,
    tree |-> Set(Var("b"), "x", Var("c"))]}

AssignText(target, value) == target.lx \o <<Lx("=")>> \o value.lx \o <<Lx(";"), NL>>

AssignTexts == {AssignText(tg, v) : tg \in AssignTargets, v \in AssignValues}

\* the clauses of a for statement, each with the statements or the
\* expression it stands for; an init holds its semicolon
ForInits ==
  {[lx |-> <<Lx(";")>>, tree |-> <<>>],
   [lx |-> <<Lx("var"), Id("j"), Lx("="), LxNum(0), Lx(";")>>,
    tree |-> <<VarS("j", Literal(Number(0)))>>],
   [lx |-> <<Id("j"), Lx("="), LxNum(0), Lx(";")>>,
    tree |-> <<ExprS(Assign("j", Literal(Number(0))))>>]}

ForConds ==
  {[lx |-> <<>>, tree |-> Literal(Bool(TRUE))],
   [lx |-> <<Id("j"), Lx("<"), LxNum(3)>>,
    tree |-> Binary(Var("j"), "Less", Literal(Number(3)))]}

ForUpdates ==
  {[lx |-> <<>>, tree |-> <<>>],
   [lx |-> <<Id("j"), Lx("="), Id("j"), Lx("+"), LxNum(1)>>,
    tree |-> <<ExprS(Assign("j", Binary(Var("j"), "Plus", Literal(Number(1)))))>>]}

ForBodies ==
  {[lx |-> <<Id("i"), Lx("="), Id("i"), Lx("+"), Id("j"), Lx(";")>>,
    tree |-> ExprS(Assign("i", Binary(Var("i"), "Plus", Var("j"))))],
   [lx |-> <<Lx("{"), Id("i"), Lx("="), Id("i"), Lx("+"), Id("j"), Lx(";"), Lx("}")>>,
    tree |-> Block(<<ExprS(Assign("i", Binary(Var("i"), "Plus", Var("j"))))>>)]}

\* var i = 0; var j = 0; for (init cond; update) body
ForText(init, cond, update, body) ==
  <<Lx("var"), Id("i"), Lx("="), LxNum(0), Lx(";"), NL,
    Lx("var"), Id("j"), Lx("="), LxNum(0), Lx(";"), NL,
    Lx("for"), Lx("(")>> \o init.lx \o cond.lx \o <<Lx(";")>> \o update.lx \o <<Lx(")")>>
  \o body.lx \o <<NL>>

ForTexts ==
  {ForText(i, c, u, b) : i \in ForInits, c \in ForConds, u \in ForUpdates, b \in ForBodies}

\* n times lx, with commas between
Commas(n, lx) ==
  [i \in 1..(IF n = 0 THEN 0 ELSE 2 * n - 1) |-> IF i % 2 = 1 THEN lx ELSE Lx(",")]

\* numbers of parameters and of arguments, around the limit
Counts == {0, 1, 2, MaxParams - 1, MaxParams, MaxParams + 1, MaxParams + 2}

\* fun f(a, a, ..) {}
FunText(n) ==
  <<Lx("fun"), Id("f"), Lx("(")>> \o Commas(n, Id("a")) \o <<Lx(")"), Lx("{"), Lx("}"), NL>>

\* class A { m(a, a, ..) {} }
MethodText(n) ==
  <<Lx("class"), Id("A"), Lx("{"), Id("m"), Lx("(")>> \o Commas(n, Id("a"))
  \o <<Lx(")"), Lx("{"), Lx("}"), Lx("}"), NL>>

\* f(1, 1, ..);
CallText(n) == <<Id("f"), Lx("(")>> \o Commas(n, LxNum(1)) \o <<Lx(")"), Lx(";"), NL>>

CountTexts == UNION {{FunText(n), MethodText(n), CallText(n)} : n \in Counts}

\* whole programs, with and without white space at the end
ProgramTexts ==
  {<<Lx("print"), LxNum(1), Lx(";"), NL, Lx("print"), LxStr("s"), Lx(";")>> \o e :
     e \in {<<>>, <<NL>>, <<Lx(" ")>>, <<Lx("//")>>, <<Lx("//"), NL>>, <<Lx("\"")>>}}
  \cup {<<Lx("print"), Lx("\""), NL>>,
        <<Lx("print"), Lx("@"), LxNum(1), Lx(";"), NL>>,
        <<Lx("var"), Id("a"), Lx(";"), NL, Lx("("), Lx(";"), NL, Id("a"), Lx(";"), NL>>}

ParseTexts == ShortTexts \cup AssignTexts \cup ForTexts \cup CountTexts \cup ProgramTexts

ParseInit ==
  /\ CompilerUnused
  /\ EnvUnused
  /\ ParserUnused
  /\ ResolverUnused
  /\ ReplUnused
  /\ ScannerUnused
  /\ RunListUnused
  /\ InterpUnused
  /\ VMUnused

\* Scanner::new(s) and Parser::new; run returns the Err of Scanner::new
LoxRunNew ==
  /\ running = "Idle"
  /\ \E s \in ParseTexts :
       \E n \in {LoxScannerNew(s)} :
         /\ text' = s
         /\ parser' = ParserNew(n.sc)
         /\ running' = IF n.t = "Err" THEN "Failed" ELSE "Running"
  /\ UNCHANGED <<prog, pc, int, last, source, vm, out, rlVars, scanVars, resolveVars, replVars, yielded, compileVars, envVars>>

\* an iteration that gets a statement and hands it to the interpreter
LoxRunStmt ==
  /\ running = "Running"
  /\ Len(yielded) < MaxIters
  /\ \E r \in {ParserNext(parser)} :
       /\ r.t = "Ok"
       /\ parser' = r.p
       /\ yielded' = Append(yielded, [t |-> "Ok", v |-> r.v])
       /\ \E interpreted \in BOOLEAN : running' = IF interpreted THEN "Running" ELSE "Failed"
  /\ UNCHANGED <<prog, pc, int, last, source, vm, out, rlVars, scanVars, resolveVars, replVars, text, compileVars, envVars>>

\* an iteration that gets an error, reports it and calls sync
LoxRunError ==
  /\ running = "Running"
  /\ Len(yielded) < MaxIters
  /\ \E r \in {ParserNext(parser)} :
       /\ r.t \in {"Parser", "Scanner"}
       /\ \E s \in {ParserSync(r.p)} :
            /\ parser' = s.p
            /\ running' = IF s.t = "Hang" THEN "Hang" ELSE "Running"
       /\ yielded' = Append(yielded, [t |-> r.t, v |-> Nil])
  /\ UNCHANGED <<prog, pc, int, last, source, vm, out, rlVars, scanVars, resolveVars, replVars, text, compileVars, envVars>>

\* the parser yields None and the loop ends
LoxRunEnd ==
  /\ running = "Running"
  /\ ParserNext(parser).t = "None"
  /\ running' = "Done"
  /\ UNCHANGED <<prog, pc, int, last, source, vm, out, rlVars, scanVars, resolveVars, replVars, text, parser, yielded, compileVars, envVars>>

ParseNext == LoxRunNew \/ LoxRunStmt \/ LoxRunError \/ LoxRunEnd

ParseSpec == ParseInit /\ [][ParseNext]_vars

(***************************************************************************)
(* The resolver on a program: each pass is resolve_stmt_list on the whole  *)
(* list of statements, with the resolver the pass before has left.  tree   *)
(* is the program, and passes holds, for each pass, its result, the        *)
(* scopes and the current_func before and after it, the depths after it    *)
(* and what was seen of resolve_local in it.                               *)
(***************************************************************************)
MaxNest == 2

MaxPasses == 2

\* a read or a write of a variable
UseOf(kind, name) ==
  IF kind = "read" THEN PrintS(Var(name)) ELSE ExprS(Assign(name, Literal(Number(1))))

RECURSIVE Nest(_, _)

\* statements inside k blocks
Nest(stmts, k) == IF k = 0 THEN stmts ELSE <<Block(Nest(stmts, k - 1))>>

\* a use of x inside k + 1 blocks, with a declaration of x in the outermost
\* of them or not, below a declaration of x that is global, in a block, a
\* parameter, or missing
ScopeTree(outer, inner, k, use) ==
  LET part == (IF inner THEN <<VarS("x", Literal(Number(2)))>> ELSE <<>>)
              \o Nest(<<UseOf(use, "x")>>, k)
  IN  CASE outer = "none" -> <<Block(part)>>
        [] outer = "global" -> <<VarS("x", Literal(Number(1))), Block(part)>>
        [] outer = "block" -> <<Block(<<VarS("x", Literal(Number(1))), Block(part)>>)>>
        [] outer = "param" -> <<FuncS("f", <<"x">>, <<Block(part)>>)>>

ScopeTrees ==
  {ScopeTree(o, i, k, u) : o \in {"none", "global", "block", "param"}, i \in BOOLEAN,
                           k \in 0..MaxNest, u \in {"read", "write"}}

\* a use of a global x, at the top level or in a block, before or after a
\* block with a local x of its own
ElsewhereTree(first, use, k) ==
  LET local == <<Block(<<VarS("x", Literal(Number(1))), UseOf(use, "x")>>)>>
      global == Nest(<<UseOf(use, "x")>>, k)
  IN  IF first = "local" THEN local \o global ELSE global \o local

ElsewhereTrees ==
  {ElsewhereTree(f, u, k) : f \in {"local", "global"}, u \in {"read", "write"},
                            k \in 0..MaxNest}

\* a body that returns a value, returns none or mentions this, as the init
\* or another method of a class, as a function, or at the top level
ReturnTree(where, body) ==
  LET stmts == CASE body = "value" -> <<Return(Literal(Number(1)))>>
                 [] body = "bare" -> <<ReturnNone>>
                 [] body = "this" -> <<PrintS(Get(This, "x"))>>
  IN  CASE where = "init" -> <<ClassS("A", <<Function("init", <<>>, stmts)>>)>>
        [] where = "method" -> <<ClassS("A", <<Function("m", <<"a">>, stmts)>>)>>
        [] where = "fun" -> <<FuncS("f", <<"a">>, stmts)>>
        [] where = "top" -> stmts

ReturnTrees ==
  {ReturnTree(w, b) : w \in {"init", "method", "fun", "top"}, b \in {"value", "bare", "this"}}

\* programs the resolver refuses
RefusedTrees ==
  {<<Block(<<VarS("a", Var("a"))>>)>>,
   <<Block(<<VarNone("a"), VarNone("a")>>)>>,
   <<FuncS("f", <<"a", "a">>, <<>>)>>}

ResolveTrees == ScopeTrees \cup ElsewhereTrees \cup ReturnTrees \cup RefusedTrees

ResolveInit ==
  /\ CompilerUnused
  /\ EnvUnused
  /\ ParserUnused
  /\ ReplUnused
  /\ ScannerUnused
  /\ RunListUnused
  /\ VMUnused
  /\ InterpUnused
  /\ tree \in ResolveTrees
  /\ resolver = ResolverNew
  /\ passes = <<>>

\* resolve_stmt_list on the program; a panic ends the process
ResolvePass ==
  /\ Len(passes) < MaxPasses
  /\ \A p \in 1..Len(passes) : passes[p].t # "Abort"
  /\ \E res \in {ResolveStmtList([resolver EXCEPT !.seen = <<>>], tree, Len(tree))} :
       /\ resolver' = res.r
       /\ passes' = Append(passes, [t |-> res.t,
                                     before |-> [scopes |-> resolver.scopes,
                                                 current_func |-> resolver.current_func],
                                     after |-> [scopes |-> res.r.scopes,
                                                current_func |-> res.r.current_func],
                                     depths |-> res.r.depths,
                                     seen |-> res.r.seen])
  /\ UNCHANGED <<prog, pc, int, last, source, vm, out, rlVars, scanVars, parseVars, replVars, tree, compileVars, envVars>>

ResolveNext == ResolvePass

ResolveSpec == ResolveInit /\ [][ResolveNext]_vars

(***************************************************************************)
(* The prompt on lines of the standard input.  buffer is the variable line *)
(* of run_prompt, submitted the strings given to Lox::run so far, reads    *)
(* the number of calls of read_line and prompt the last prompt written.    *)
(* What Lox::run does with a string is the matter of ParseSpec.            *)
(***************************************************************************)
MaxLines == 3

\* what a line holds before its end
LineBodies ==
  { <<>>, <<" ">>, <<"a">>, <<";">>, <<"a", ";">>, <<";", "a">>, <<";", " ">>,
    <<"{">>, <<"a", "{">>, <<"{", "a">>, <<"}">>, <<"{", "}">>, <<"}", ";">> }

LineEnds == { <<"\n">>, <<"\r", "\n">> }

\* what read_line appends: a line with its end, or nothing at the end of the
\* input
LinesRead == { b \o e : b \in LineBodies, e \in LineEnds } \cup { <<>> }

ReplInit ==
  /\ CompilerUnused
  /\ EnvUnused
  /\ ParserUnused
  /\ ResolverUnused
  /\ ScannerUnused
  /\ RunListUnused
  /\ VMUnused
  /\ InterpUnused
  /\ indent = 0
  /\ buffer = <<>>
  /\ submitted = <<>>
  /\ reads = 0
  /\ prompt = WritePrompt(0)

\* read_line and the rest of the pass of the inner loop; on a break the line
\* is given to Lox::run and the outer loop starts a new line
ReplReadLine ==
  /\ prompt # <<>>
  /\ reads < MaxLines
  /\ \E read \in LinesRead :
       LET s == ReplStep(indent, buffer \o read)
       IN /\ indent' = s.indent
          /\ buffer' = IF s.brk THEN <<>> ELSE s.line
          /\ submitted' = IF s.brk THEN Append(submitted, s.line) ELSE submitted
          /\ prompt' = WritePrompt(s.indent)
  /\ reads' = reads + 1
  /\ UNCHANGED <<prog, pc, int, last, source, vm, out, rlVars, scanVars, parseVars, resolveVars, compileVars, envVars>>

ReplNext == ReplReadLine

ReplSpec == ReplInit /\ [][ReplNext]_vars

(***************************************************************************)
(* Properties of calls in the tree-walk interpreter.                       *)
(***************************************************************************)
\* the calls made through handle_callable by the statement just run
CallLog == {int.calls[i] : i \in 1..Len(int.calls)}

\* the calls of user code: functions, bound methods and class constructors
UserCalls == {c \in CallLog : c.kind \in {"Func", "Method", "Init"} /\ c.entered}

\* the value of a variable as the top-level scope sees it
Lookup(name) == EnvGet(int.env, name, EnvDepth(int.env))

Finished == pc = Len(prog) + 1

\* C1: for every call of a user function, a bound method or a class
\* constructor, the depth of the environment when the call returns equals
\* its depth at call entry, on every exit path (normal completion, return
\* inside nested blocks, runtime error, also inside a constructor's init).
C1_DepthRestored ==
  \A c \in UserCalls :
    /\ Len(c.envOut) = Len(c.envIn)
    /\ EnvDepth(c.envOut) = EnvDepth(c.envIn)

\* C2: after var counter = makeCounter(); the k-th statement
\* test = counter(); succeeds and leaves k in test.
C2_CounterCounts ==
  \A n \in 1..MaxCalls : \A k \in 1..n :
    prog = CounterProgram(n) /\ pc = 3 + k + 1 =>
      last = "Ok" /\ Lookup("test") = [ok |-> TRUE, v |-> Number(k)]

RECURSIVE Fibonacci(_)
Fibonacci(n) == IF n < 2 THEN n ELSE Fibonacci(n - 1) + Fibonacci(n - 2)

C4_CallerEnvKept ==
  \A c \in CallLog :
    c.kind = "Func" /\ c.entered =>
      /\ Len(c.envOut) = Len(c.envIn)
      /\ \A j \in 1..Len(c.envIn) :
           c.envIn[j].depth >= c.f.env_id /\ j <= Len(c.envOut) => c.envOut[j] = c.envIn[j]

\* C5: calling a class whose init declares n parameters with n arguments
\* succeeds and returns the instance with the fields init set, so that
\* a.get() yields the value init stored.
C5_InitWithArgs ==
  \A n \in 0..2, i \in 1..Len(ArgValues) :
    prog = InitProgram(n, n, ArgValues[i]) /\ pc > 2 =>
      /\ last = "Ok"
      /\ Lookup("a").ok /\ Lookup("a").v.t = "Class"
      /\ Lookup("a").v.fields = [x |-> IF n > 0 THEN ArgValues[i] ELSE Number(1)]
      /\ Finished => int.out = <<IF n > 0 THEN ArgValues[i] ELSE Number(1)>>

\* the two environments hold the same frames, names and values but for the
\* variable `name`
SameExcept(envIn, envOut, name) ==
  /\ Len(envOut) = Len(envIn)
  /\ \A j \in 1..Len(envIn) :
       /\ envOut[j].depth = envIn[j].depth
       /\ DOMAIN envOut[j].values = DOMAIN envIn[j].values
       /\ \A x \in DOMAIN envIn[j].values \ {name} :
            envOut[j].values[x] = envIn[j].values[x]

\* C6: after var junk = Junk(); junk.things(v); the expression junk.one
\* evaluates to v in the caller's scope, and the call of things changes no
\* variable of the caller but junk.
C6_ThisWriteBack ==
  \A i \in 1..Len(ArgValues), b \in BOOLEAN :
    prog = ThisProgram(ArgValues[i], b) =>
      /\ last \in {"None", "Ok"}
      /\ Finished => int.out = <<ArgValues[i]>>
      /\ \A c \in CallLog :
           c.kind = "Method" => c.exit = "Ok" /\ SameExcept(c.envIn, c.envOut, "junk")

C6_Witness ==
  /\ prog = ThisProgram(Number(MaxVal), TRUE)
  /\ Finished
  /\ int.out = <<Number(MaxVal)>>
  /\ \E c \in CallLog : c.kind = "Method" /\ c.f.func.name = "things"
                        /\ c.envOut # c.envIn

\* the declared parameter count of the callee of ArityProgram
Declared(callee) ==
  CASE callee = "f" -> 1
    [] callee = "k.m" -> 1
    [] callee = "mod" -> 2
    [] callee = "clock" -> 0

\* C7: a call of a user function, bound method or native function with a
\* number of arguments other than its declared parameter count ends in
\* Error::Runtime, enters no call, and leaves the environment and the output
\* as they were.
C7_ArityMismatch ==
  [][\A c \in {"f", "k.m", "mod", "clock"}, m \in 0..3 :
       prog = ArityProgram(c, m) /\ m # Declared(c) /\ pc = Len(prog) =>
         /\ last' = "Runtime"
         /\ int'.env = int.env
         /\ int'.out = int.out
         /\ \A l \in 1..Len(int'.calls) : ~int'.calls[l].entered]_vars

C7_Witness ==
  /\ \E c \in {"f", "k.m", "mod"} : prog = ArityProgram(c, Declared(c) + 1)
  /\ Finished
  /\ last = "Runtime"
  /\ \E c \in CallLog : ~c.entered /\ c.kind \in {"Func", "Method", "NativeFunc"}

(***************************************************************************)
(* Properties of Env.                                                      *)
(***************************************************************************)
\* the frames of the environment have the depths 0..n, outermost first
DepthsInOrder(env) == \A i \in 1..Len(env) : env[i].depth = i - 1

Reversed(s) == [i \in 1..Len(s) |-> s[Len(s) + 1 - i]]

\* descend_into with each frame of `envs`, the last one first
RECURSIVE Reattach(_, _)
Reattach(env, envs) ==
  IF envs = <<>> THEN env
  ELSE Reattach(EnvDescendInto(env, Last(envs)), Front(envs))

\* the frames that a step has added to the ones its caller keeps
Detached == SubSeq(removed', Len(removed) + 1, Len(removed'))

\* C35: for an environment whose frames have the depths 0..n and every
\* d <= n, revert_to(d) leaves the frames of depths 0..d and returns the
\* others with the deepest first; descend_into with the returned frames in
\* reverse order gives the original environment back, bindings included;
\* ascend_out_of on an environment without a parent returns a Runtime error
\* and leaves the environment as it was.
C35_RevertRoundTrip ==
  /\ [](DepthsInOrder(chain) =>
          \A d \in 0..(Len(chain) - 1) :
            LET r == EnvRevertTo(chain, d)
            IN  /\ r.ok
                /\ EnvDepth(r.env) = d
                /\ r.env = SubSeq(chain, 1, d + 1)
                /\ r.envs = Reversed(SubSeq(chain, d + 2, Len(chain)))
                /\ Reattach(r.env, r.envs) = chain)
  /\ [][(RevertTo \/ AscendOutOf) /\ DepthsInOrder(chain) /\ Len(chain) > 1 =>
          /\ ascended' = "Ok"
          /\ DepthsInOrder(chain')
          /\ \A i \in 1..Len(Detached) : Detached[i].depth = Len(chain) - i
          /\ Reattach(chain', Detached) = chain]_vars
  /\ [][AscendOutOf /\ Len(chain) = 1 =>
          ascended' = "Runtime" /\ chain' = chain /\ removed' = removed]_vars
  /\ [](Len(chain) = 1 =>
          ~EnvAscendOutOf(chain).ok /\ EnvAscendOutOf(chain).env = chain)

\* revert_to has returned two frames with different bindings, the deepest
\* first, and the environment is left at depth 1
C35_Witness ==
  /\ ascended = "Ok"
  /\ Len(chain) = 2 /\ DepthsInOrder(chain)
  /\ Len(removed) = 2
  /\ removed[1].depth = 3 /\ removed[2].depth = 2
  /\ removed[1].values = MapInsert(EmptyMap, "a", Number(1))
  /\ removed[2].values = MapInsert(EmptyMap, "a", Number(2))

(***************************************************************************)
(* Properties of the VM.                                                   *)
(***************************************************************************)
\* the outcome of the tree-walk interpreter for a source: the value of the
\* expression, a runtime error, or a parser error
TreeWalk(src) ==
  LET toks == Scan(src)
      p == ParseExpression(toks, 1)
  IN  IF ~p.ok \/ toks[p.i].kind # "Eof" THEN [t |-> "Parser", v |-> Nil]
      ELSE LET r == Evaluate(p.e, NewInterpreter) IN [t |-> r.t, v |-> r.v]

VMFinished == vm.at \in {"ok", "runtime", "panic"}

\* C9: for every source of Sources, when the VM has finished either it and
\* the tree-walk interpreter both failed with a runtime error, or the VM
\* printed the value the tree-walk interpreter computed.
C9_SameOutcome ==
  VMFinished =>
    \/ TreeWalk(source).t = "Runtime" /\ vm.at = "runtime"
    \/ TreeWalk(source).t = "Ok" /\ vm.at = "ok" /\ out = <<TreeWalk(source).v>>

\* C10: when Less, Gtr, Sub or Div executes on two numbers of which a was
\* pushed before b, the two are replaced by Boolean(a < b), Boolean(a > b),
\* a - b and a / b.
C10_FirstPushedIsLeft ==
  [][Running /\ Inst.op \in {"Less", "Gtr", "Sub", "Div"} /\ OperandsMatch
     /\ Top.t = "Number" =>
       LET a == Under.n
           b == Top.n
       IN  vm'.stack = Append(Popped(2),
                              CASE Inst.op = "Less" -> VBoolean(F64Lt(a, b))
                                [] Inst.op = "Gtr" -> VBoolean(F64Gt(a, b))
                                [] Inst.op = "Sub" -> VNumber(F64Sub(a, b))
                                [] Inst.op = "Div" -> VNumber(F64Div(a, b)))]_vars

\* C11: when Add executes on two string objects of which s was pushed before
\* t, the heap grows by the one entry s followed by t, the entries it had are
\* unchanged, and the two operands are replaced by the index of the new entry.
C11_AddConcatenatesInOrder ==
  [][Running /\ Inst.op = "Add" /\ OperandsMatch /\ Top.t = "Obj" =>
       LET s == vm.chunk.heap[Under.idx + 1]
           t == vm.chunk.heap[Top.idx + 1]
       IN  /\ vm'.chunk.heap = Append(vm.chunk.heap, s \o t)
           /\ vm'.stack = Append(Popped(2), VObj(Len(vm.chunk.heap)))]_vars

BinaryOps == {"Add", "Sub", "Mul", "Div", "Less", "Gtr"}

\* C12: when Add, Sub, Mul, Div, Less or Gtr executes on two values of
\* different tags, run ends with Error::Runtime and the stack is the one
\* before the instruction.
C12_UnmatchedKeepsStack ==
  [][Running /\ Inst.op \in BinaryOps /\ Len(vm.stack) >= 2 /\ Top.t # Under.t =>
       vm'.at = "runtime" /\ vm'.stack = vm.stack]_vars

\* a Less has ended in a runtime error on a number and a boolean
C12_Witness ==
  /\ vm.at = "runtime"
  /\ vm.chunk.code[vm.ip].op = "Less"
  /\ Len(vm.stack) >= 2
  /\ {Top.t, Under.t} = {"Number", "Boolean"}

\* C13: when Add, Sub, Mul or Div executes on two values that are not both
\* numbers, and for Add not both strings, run ends with Error::Runtime: it
\* neither aborts nor pushes a value.
C13_NonNumbersAreRuntimeErrors ==
  [][/\ Running /\ Inst.op \in {"Add", "Sub", "Mul", "Div"} /\ Len(vm.stack) >= 2
     /\ ~(Top.t = "Number" /\ Under.t = "Number")
     /\ ~(Inst.op = "Add" /\ Top.t = "Obj" /\ Under.t = "Obj")
     => vm'.at = "runtime"]_vars

\* C14: for all literals a and b, the sources `a == b` and `!(a != b)` both
\* yield the boolean "a and b are the same literal", in the VM and in the
\* tree-walk interpreter; so nil == nil is true and literals of different
\* tags are not equal.
C14_EqIsNotBangEq ==
  VMFinished =>
    \A a \in Leaves, b \in Leaves :
      source \in {<<a, Lx("=="), b>>, <<Lx("!"), Lx("("), a, Lx("!="), b, Lx(")")>>} =>
        /\ vm.at = "ok"
        /\ out = <<Bool(a = b)>>
        /\ TreeWalk(source) = [t |-> "Ok", v |-> Bool(a = b)]

\* `!("a" != "a")` has printed true
C14_Witness ==
  /\ vm.at = "ok"
  /\ source = <<Lx("!"), Lx("("), LxStr("a"), Lx("!="), LxStr("a"), Lx(")")>>
  /\ out = <<Bool(TRUE)>>

\* C16: get_unchecked(idx) on the lines of a Chunk returns the line of the
\* write number idx (counting from 0) when there were more than idx writes,
\* and panics otherwise
C16_RunListLossless ==
  [][got' # got =>
       got'.r = IF got'.idx < Len(pushed) THEN [t |-> "Ok", v |-> pushed[got'.idx + 1]]
                ELSE [t |-> "Panic"]]_vars

\* a line is read back from a run of several writes that follows another run
C16_Witness ==
  /\ got.t = "Some" /\ got.r.t = "Ok"
  /\ Len(chunk.lines) = 2 /\ Len(pushed) = MaxPushes
  /\ got.idx = Len(pushed) - 1
  /\ chunk.lines[2].len >= 2

\* the diagnostics the compiler reports for a source
Diagnostics(src) == Compile(RoxcScan(src)).diag

\* C15: once VM::interpret has been called on a source for which the
\* compiler reported a diagnostic, it has returned Error::Compiler: no
\* instruction of the chunk was executed, so nothing was printed, nothing is
\* on the stack and there is no Error::Runtime
C15_DiagnosticsStopInterpret ==
  vm.at # "new" /\ Diagnostics(source) # <<>> =>
    vm.at = "compiler" /\ vm.ip = 0 /\ vm.stack = <<>> /\ out = <<>>

\* s is the beginning of t
IsPrefix(s, t) == Len(s) <= Len(t) /\ SubSeq(t, 1, Len(s)) = s

\* the strings of the string literals of a source, in its order
StringsOf(src) ==
  LET lits == SelectSeq(src, LAMBDA lx : lx.s = "string")
  IN  [i \in 1..Len(lits) |-> lits[i].v.s]

\* the constants of a pool that are objects, in its order
ObjConstants(values) == SelectSeq(values, LAMBDA v : v.t = "Obj")

\* every Obj{idx} of the constant pool and of the stack is below the length
\* of the heap, every Constant{idx} of the code below that of the pool
IndicesValid ==
  /\ \A i \in 1..Len(vm.chunk.values) :
       vm.chunk.values[i].t = "Obj" => vm.chunk.values[i].idx < Len(vm.chunk.heap)
  /\ \A i \in 1..Len(vm.stack) :
       vm.stack[i].t = "Obj" => vm.stack[i].idx < Len(vm.chunk.heap)
  /\ \A i \in 1..Len(vm.chunk.code) :
       vm.chunk.code[i].op = "Constant" => vm.chunk.code[i].idx < Len(vm.chunk.values)

\* the k-th object constant the compiler has made has the index the heap
\* had k - 1 entries at, and the entry at that index is the string of the
\* k-th string literal of the source
CompiledInPlace ==
  LET objs == ObjConstants(vm.chunk.values)
  IN  /\ Len(objs) <= Len(StringsOf(source))
      /\ \A k \in 1..Len(objs) :
           /\ objs[k].idx = k - 1
           /\ vm.chunk.heap[k] = StringsOf(source)[k]

\* C29: the heap and the constant pool of the chunk only grow at their end,
\* through compilation and through the run of the VM: an entry once written
\* stays at its index with its value, and every Obj{idx} of the constant
\* pool or of the stack and every Constant{idx} of the code is below the
\* length of what it indexes, in every reachable state.
C29_HeapAppendOnly ==
  /\ [](IndicesValid /\ CompiledInPlace)
  /\ [][vm.at # "new" =>
          /\ IsPrefix(vm.chunk.heap, vm'.chunk.heap)
          /\ IsPrefix(vm.chunk.values, vm'.chunk.values)]_vars

\* a string made by Add is on the stack, after the strings of the compiler
C29_Witness ==
  /\ vm.at \in {"run", "ok"}
  /\ Len(vm.chunk.heap) > Len(StringsOf(source))
  /\ Len(StringsOf(source)) = 2
  /\ \E i \in 1..Len(vm.stack) :
       vm.stack[i].t = "Obj" /\ vm.stack[i].idx = Len(vm.chunk.heap) - 1

\* Prec::Comparison
PrecComparison == 5

\* the level of the precedence table for the kind of a binary operator
TablePrecedence(kind) ==
  CASE kind \in {"Star", "Slash"} -> PrecFactor
    [] kind \in {"Plus", "Minus"} -> PrecTerm
    [] kind \in {"Less", "LessEq", "Greater", "GreaterEq"} -> PrecComparison
    [] kind \in {"EqEq", "BangEq"} -> PrecEquality

\* the opcodes binary emits for an operator
OpCodesOf(kind) ==
  CASE kind = "Plus" -> <<Op("Add")>>
    [] kind = "Minus" -> <<Op("Sub")>>
    [] kind = "Star" -> <<Op("Mul")>>
    [] kind = "Slash" -> <<Op("Div")>>
    [] kind = "BangEq" -> <<Op("Eq"), Op("Not")>>
    [] kind = "EqEq" -> <<Op("Eq")>>
    [] kind = "Greater" -> <<Op("Gtr")>>
    [] kind = "GreaterEq" -> <<Op("Less"), Op("Not")>>
    [] kind = "Less" -> <<Op("Less")>>
    [] kind = "LessEq" -> <<Op("Gtr"), Op("Not")>>

\* a source l o m q r of three numbers and two binary operators
TwoOperators(src) ==
  /\ Len(src) = 5
  /\ \A i \in {1, 3, 5} : src[i].s = "number"
  /\ \A i \in {2, 4} : src[i] \in BinaryLx

\* the code for l o m q r when the operator of the higher level of the table
\* binds tighter and operators of one level group to the left
TableCode(src) ==
  LET o == RoxcTokenType(src[2].s)
      q == RoxcTokenType(src[4].s)
  IN  IF TablePrecedence(q) > TablePrecedence(o)
      THEN <<OpConstant(0), OpConstant(1), OpConstant(2)>> \o OpCodesOf(q) \o OpCodesOf(o)
           \o <<Op("Return")>>
      ELSE <<OpConstant(0), OpConstant(1)>> \o OpCodesOf(o) \o <<OpConstant(2)>>
           \o OpCodesOf(q) \o <<Op("Return")>>

\* C30: the order of the opcodes follows the precedence table, Factor above
\* Term above Comparison above Equality: in l o m q r the operator q of a
\* higher level than o is emitted before o, after the code of m and r (so
\* for a == b < c the code of b and c and Less come before Eq), and else o
\* is emitted before the code of r.
C30_PrecedenceOrder ==
  vm.at # "new" /\ TwoOperators(source) => vm.chunk.code = TableCode(source)

\* the code for l o m q r grouped to the left: l, m, o, r, q
LeftCode(src) ==
  <<OpConstant(0), OpConstant(1)>> \o OpCodesOf(RoxcTokenType(src[2].s)) \o <<OpConstant(2)>>
  \o OpCodesOf(RoxcTokenType(src[4].s)) \o <<Op("Return")>>

\* the two operators of l o m q r are of one level for the compiler
SameLevel(src) ==
  DeterminePrecedence(RoxcTokenType(src[2].s)) = DeterminePrecedence(RoxcTokenType(src[4].s))

\* C31: two binary operators of one level are compiled grouped to the left:
\* the code for a op1 b op2 c is a, b, op1, c, op2, and the run of l - m - r
\* prints (l - m) - r.
C31_LeftAssociative ==
  vm.at # "new" /\ TwoOperators(source) /\ SameLevel(source) =>
    /\ vm.chunk.code = LeftCode(source)
    /\ vm.at = "ok" /\ source[2].s = "-" /\ source[4].s = "-" =>
         out = <<NumberF(F64Sub(F64Sub(source[1].v.n, source[3].v.n), source[5].v.n))>>

\* l - m - r has run with m - r not zero, so that l - (m - r) is another value
C31_Witness ==
  /\ vm.at = "ok" /\ TwoOperators(source)
  /\ source[2].s = "-" /\ source[4].s = "-"
  /\ source[3].v.n # source[5].v.n
  /\ out = <<NumberF(F64Sub(F64Sub(source[1].v.n, source[3].v.n), source[5].v.n))>>

\* C32: every chunk that Compiler::compile returns, whatever the source, has
\* Return as its last instruction and nowhere else, and as many lines
\* recorded as instructions: get_unchecked gives a line for every index of
\* the code and for no index beyond.
C32_EndsWithReturn ==
  compiled.t = "Returned" =>
    LET code == compiled.chunk.code
    IN  /\ code # <<>>
        /\ \A i \in 1..Len(code) : code[i] = Op("Return") <=> i = Len(code)
        /\ \A i \in 0..(Len(code) - 1) : GetUnchecked(compiled.chunk.lines, i).t = "Ok"
        /\ GetUnchecked(compiled.chunk.lines, Len(code)).t = "Panic"

\* a chunk of several instructions returned for a source with a diagnostic
C32_Witness ==
  /\ compiled.t = "Returned"
  /\ compiled.diag # <<>>
  /\ Len(compiled.chunk.code) >= 3

\* the lines Compiler::error has printed, among what the compiler printed
ErrorsPrinted(diag) ==
  SelectSeq(diag, LAMBDA d : d \in {"Expect prefix expression", "Expect infix expression",
                                    "Expected closing paren"})

RECURSIVE TokenKinds(_)

\* the kinds of the tokens the scanner yields before Eof, an error or its end
TokenKinds(sc) ==
  LET Rest(n) == IF n.r.t # "Ok" \/ n.r.kind = "Eof" THEN {}
                 ELSE {n.r.kind} \cup TokenKinds(n.sc)
  IN  Rest(ScannerNext(sc))

\* the scanner yields no token at which a compiler would synchronize: no `;`
\* and no keyword that begins a statement
NoSynchronizingToken(src) ==
  TokenKinds(ScannerNew(src))
    \cap {"Semi", "Class", "Fun", "Var", "For", "If", "While", "Print", "Return"} = {}

\* C33: once Compiler::error has printed a diagnostic and set panic_mode, it
\* prints no other before a synchronizing token is consumed: for a source
\* without such a token at most one diagnostic of Compiler::error is printed.
C33_PanicModeSuppresses ==
  compiled.t # "None" /\ NoSynchronizingToken(input) =>
    Len(ErrorsPrinted(compiled.diag)) <= 1

\* C34: run ends on every chunk.  Each step of the loop executes the
\* instruction at index ip and leaves ip one higher, ip never passes the
\* length of the code, and nothing is executed once run has returned; the
\* first Return prints the top of the stack, nil for an empty stack, pops it
\* and ends the run, so no Return lies before the one that ended it; and
\* when the source compiled without a diagnostic and the run ended without
\* error, the stack is empty.
C34_RunTerminates ==
  /\ [](vm.ip <= Len(vm.chunk.code))
  /\ [][vm.at = "run" => vm'.ip = vm.ip + 1]_vars
  /\ [][vm.at \in {"new", "run"}]_vars
  /\ [][vm.at = "run" /\ Inst.op = "Return" =>
          /\ vm'.at = "ok"
          /\ out' = Append(out, FormatValue(vm.stack))
          /\ vm'.stack = IF vm.stack = <<>> THEN <<>> ELSE Popped(1)]_vars
  /\ [](vm.at = "ok" =>
          /\ vm.chunk.code[vm.ip] = Op("Return")
          /\ \A i \in 1..(vm.ip - 1) : vm.chunk.code[i] # Op("Return"))
  /\ [](vm.at = "ok" /\ Diagnostics(source) = <<>> => vm.stack = <<>>)

\* a run of several instructions has ended at Return, for a source without a
\* diagnostic, with its value printed and the stack empty
C34_Witness ==
  /\ vm.at = "ok"
  /\ Diagnostics(source) = <<>>
  /\ vm.ip >= 4
  /\ vm.ip = Len(vm.chunk.code)
  /\ Len(out) = 1
  /\ vm.stack = <<>>

\* C36: whenever the VM is about to execute Add, Sub, Mul, Div, Less or Gtr
\* of a chunk that Compiler::compile has produced, with or without
\* diagnostics, at least two values are on the stack.
C36_TwoOperands ==
  Running /\ Inst.op \in BinaryOps => Len(vm.stack) >= 2

\* C38: Compiler::compile returns for every source: the recursion of
\* precedence does not outgrow the stack, the loop of precedence ends, and
\* the depth of the recursion is at most the number of characters plus one.
C38_CompileTerminates ==
  /\ compiled.t \notin {"Overflow", "Loop"}
  /\ compiled.t = "Returned" => compiled.deepest <= Len(input) + 1

(***************************************************************************)
(* Properties of the scanner of roxc.                                      *)
(***************************************************************************)
IsEof(item) == item.t = "Ok" /\ item.kind = "Eof"

\* a call of next returned Err or aborted
ScansWithError == scanner.panic \/ \E i \in 1..Len(items) : items[i].t = "Err"

\* next has been called as often as the consumer calls it
AllCalled == Len(items) = Len(scanner.original) + 1 + MaxNone

\* C17: in what next returns, an Eof token comes after tokens only, none of
\* them Eof, and is followed by None only; None is returned only after an
\* Eof; and when a source has scanned without error, there is an Eof among
\* what the calls of next returned
C17_EofOnceThenNone ==
  /\ \A i \in 1..Len(items) :
       /\ IsEof(items[i]) =>
            \A j \in 1..Len(items) :
              /\ j < i => items[j].t = "Ok" /\ ~IsEof(items[j])
              /\ j > i => items[j].t = "None"
       /\ items[i].t = "None" => \E j \in 1..(i - 1) : IsEof(items[j])
  /\ AllCalled /\ ~ScansWithError => \E i \in 1..Len(items) : IsEof(items[i])

\* tokens, then Eof, then None twice
C17_Witness ==
  /\ AllCalled
  /\ Len(items) >= 4
  /\ items[1].t = "Ok" /\ ~IsEof(items[1])
  /\ IsEof(items[Len(items) - 2])
  /\ items[Len(items) - 1].t = "None" /\ items[Len(items)].t = "None"

\* the number of '\n' among the first n characters
RECURSIVE Newlines(_, _)

Newlines(src, n) ==
  IF n = 0 THEN 0 ELSE Newlines(src, n - 1) + (IF src[n] = "\n" THEN 1 ELSE 0)

\* a source without comment that has a string literal without closing
\* quote, or no string literal and a character that starts no token
Faulty(src) ==
  /\ \A i \in 1..Len(src) : src[i] # "/"
  /\ \/ Cardinality({i \in 1..Len(src) : src[i] = "\""}) % 2 = 1
     \/ /\ \A i \in 1..Len(src) : src[i] # "\""
        /\ \E i \in 1..Len(src) : src[i] \notin Whitespace /\ TryFrom(src[i]).t = "Error"

\* C18: on a faulty source the scanner does not abort, returns no String
\* token without closing quote, every Err it returns is at a character that
\* starts no token or at the opening quote, with the line of that
\* character, and the calls of next do not end without an Err
C18_ErrNotAbort ==
  Faulty(scanner.original) =>
    /\ ~scanner.panic
    /\ \A i \in 1..Len(items) :
         /\ items[i].t = "Ok" /\ items[i].kind = "String" =>
              Len(items[i].slice) >= 2 /\ items[i].slice[Len(items[i].slice)] = "\""
         /\ items[i].t = "Err" =>
              /\ items[i].index < Len(scanner.original)
              /\ TryFrom(scanner.original[items[i].index + 1]).t \in {"Error", "String"}
              /\ items[i].line = 1 + Newlines(scanner.original, items[i].index)
    /\ AllCalled => ScansWithError

\* the length of the run of letters and digits a source begins with
RECURSIVE RunLen(_)

RunLen(src) ==
  IF src # <<>> /\ Head(src) \in Alphabetic \cup Digit THEN 1 + RunLen(Tail(src)) ELSE 0

\* the kind of a run: that of the keyword it is, else Ident
KindOf(run) ==
  IF \E k \in Keywords : k.word = run THEN (CHOOSE k \in Keywords : k.word = run).kind
  ELSE "Ident"

\* the run of letters and digits a source begins with
FirstRun(src) == SubSeq(src, 1, RunLen(src))

\* C19: when a source begins with a letter, the first token is the whole
\* run of letters and digits the source begins with; its kind is that of a
\* keyword if the run is that keyword and Ident otherwise
C19_KeywordIffExact ==
  scanner.original # <<>> /\ Head(scanner.original) \in Alphabetic /\ items # <<>> =>
    items[1] = [t |-> "Ok", kind |-> KindOf(FirstRun(scanner.original)), line |-> 1,
                slice |-> FirstRun(scanner.original)]

\* forget is one Ident
C19_Witness ==
  /\ scanner.original = <<"f", "o", "r", "g", "e", "t">>
  /\ Len(items) = 1
  /\ items[1].kind = "Ident" /\ items[1].slice = scanner.original

\* C20: _x, a_b and for_ are each scanned as one Ident token
C20_UnderscoreInIdent ==
  /\ scanner.original \in {<<"_", "x">>, <<"a", "_", "b">>, <<"f", "o", "r", "_">>}
  /\ items # <<>>
  => items[1] = [t |-> "Ok", kind |-> "Ident", line |-> 1, slice |-> scanner.original]

\* a source without strings in which a line comment runs to the end of the
\* input, with no newline after it
OpenComment(src) ==
  /\ \A i \in 1..Len(src) : src[i] # "\""
  /\ \E i \in 1..(Len(src) - 1) :
       /\ src[i] = "/" /\ src[i + 1] = "/"
       /\ \A j \in (i + 2)..Len(src) : src[j] # "\n"

\* C37: a line comment that runs to the end of the input is skipped like any
\* other: the scanner does not abort, its cursor stays within the source, and
\* once the scanner has been called to its end without an Err it has yielded
\* Eof.
C37_CommentToEndOfInput ==
  OpenComment(scanner.original) =>
    /\ ~scanner.panic
    /\ scanner.cursor <= Len(scanner.original)
    /\ AllCalled /\ (\A i \in 1..Len(items) : items[i].t # "Err") =>
         \E i \in 1..Len(items) : IsEof(items[i])

(***************************************************************************)
(* Properties of the parser of roxi.                                       *)
(***************************************************************************)
\* C21: an assignment is right-associative and checks its target: with an
\* identifier on the left it is Assign(name, value), with a property access
\* Set(object, name, value), where value is the whole right-hand side
\* (`a = b = c` is Assign(a, Assign(b, c))); with `this` on the left it is
\* accepted; with any other left-hand side it is Err(Error::Parser).
C21_AssignmentTargets ==
  \A tg \in AssignTargets, v \in AssignValues :
    text = AssignText(tg, v) /\ yielded # <<>> =>
      CASE tg.tree.k = "Var" -> yielded[1] = [t |-> "Ok", v |-> ExprS(Assign(tg.tree.name, v.tree))]
        [] tg.tree.k = "Get" ->
             yielded[1] = [t |-> "Ok", v |-> ExprS(Set(tg.tree.object, tg.tree.name, v.tree))]
        [] tg.tree.k = "This" -> yielded[1].t = "Ok"
        [] OTHER -> yielded[1] = [t |-> "Parser", v |-> Nil]


\* the statements the parser has yielded, run as the tests of the interpreter
\* run them: one after the other on a new interpreter
ForRun == ExecList([n \in 1..Len(yielded) |-> yielded[n].v], Len(yielded), NewInterpreter)

\* the value of the global i after ForRun
ForLeaves == EnvGet(ForRun.st.env, "i", EnvDepth(ForRun.st.env))

\* C22: `for (init; cond; update) body` parses to
\* Block[init?, While(test, Block[body, Expr(update)?])], with init and
\* update only when written and the literal true for an omitted cond; so
\* init runs once and update after body in every iteration: with j from 0
\* while j < 3 and j = j + 1, the body i = i + j leaves i = 3.
C22_ForDesugars ==
  \A i \in ForInits, c \in ForConds, u \in ForUpdates, b \in ForBodies :
    text = ForText(i, c, u, b) /\ Len(yielded) = 3 =>
      /\ yielded[3] = [t |-> "Ok",
                       v |-> Block(i.tree \o <<While(c.tree, Block(<<b.tree>> \o u.tree))>>)]
      /\ c.lx # <<>> /\ u.lx # <<>> =>
            /\ ForRun.t = "Ok"
            /\ ForLeaves = [ok |-> TRUE, v |-> Number(3)]

C22_Witness ==
  /\ \E i \in ForInits, c \in ForConds, u \in ForUpdates, b \in ForBodies :
        text = ForText(i, c, u, b) /\ i.tree # <<>> /\ c.lx # <<>> /\ u.lx # <<>>
  /\ Len(yielded) = 3
  /\ yielded[3].t = "Ok"
  /\ yielded[3].v.k = "Block"
  /\ ForLeaves.v = Number(3)

\* C23: a function or a method with up to 255 parameters and a call with up
\* to 255 arguments are accepted; with 256 or more parameters, and with 256
\* or more arguments, the parser returns Error::Parser.
C23_ListLimits ==
  \A n \in Counts :
    text \in {FunText(n), MethodText(n), CallText(n)} /\ yielded # <<>> =>
      yielded[1].t = IF n <= MaxParams THEN "Ok" ELSE "Parser"

\* what the parser has still to take: the lexemes not yet scanned and the
\* lookahead
Remaining(p) == Len(p.scanner.source) - p.scanner.current + Len(p.scanner.lookahead)

\* C24: batch parsing terminates on every source: sync returns, and every
\* iteration of the loop of run, with or without an error, takes at least
\* one token, so that the end of the input is reached; a scanner error and
\* a source that does not end with white space are no exceptions.
C24_BatchParsingTerminates ==
  /\ [](running # "Hang")
  /\ [][running = "Running" /\ yielded' # yielded => Remaining(parser') < Remaining(parser)]_vars
(***************************************************************************)
(* Properties of the resolver.                                             *)
(***************************************************************************)
\* the hop to the innermost scope that holds the name of a use, none when
\* no scope holds it
InnermostHop(u) ==
  LET holders == {i \in 1..Len(u.declared) : u.name \in u.declared[i]}
  IN  IF holders = {} THEN [has |-> FALSE, n |-> 0]
      ELSE [has |-> TRUE,
            n |-> Len(u.declared) - (CHOOSE i \in holders : \A j \in holders : j <= i)]

\* C25: the hop recorded for a read or a write of a variable is the number
\* of scopes between the use and the innermost scope around it that
\* declares the name, also when an outer scope declares the name as well;
\* a name that no scope around the use declares gets no hop, also when the
\* name is a local elsewhere in the program.
C25_HopsToInnermost ==
  passes # <<>> =>
    \A j \in 1..Len(passes[1].seen) : passes[1].seen[j].hop = InnermostHop(passes[1].seen[j])

\* C26: in the init of a class `return <expr>;` is an error of the resolver,
\* while `return;` in init and `return <expr>;` in other methods and in
\* functions are accepted; a class whose methods mention this is resolved
\* without a panic.
C26_ReturnInInit ==
  \A w \in {"init", "method", "fun"}, b \in {"value", "bare", "this"} :
    tree = ReturnTree(w, b) /\ passes # <<>> /\ ~(w = "fun" /\ b = "this") =>
      passes[1].t = IF w = "init" /\ b = "value" THEN "Parser" ELSE "Ok"

\* C27: the resolver is idempotent: after a first pass without error, every
\* further pass of the same resolver over the same statements ends without
\* error with the depths of the first pass, and every such pass leaves the
\* scopes and current_func as it found them.
C27_Idempotent ==
  passes # <<>> /\ passes[1].t = "Ok" =>
    \A p \in 1..Len(passes) :
      /\ passes[p].t = "Ok"
      /\ passes[p].depths = passes[1].depths
      /\ passes[p].after = passes[p].before

C27_Witness ==
  /\ Len(passes) >= 2
  /\ passes[1].t = "Ok"
  /\ passes[2].t = "Ok"
  /\ passes[1].depths # NoMap
  /\ passes[2].depths = passes[1].depths
  /\ \E k \in {"Block", "Func", "Class"} : \E i \in 1..Len(tree) : tree[i].k = k

(***************************************************************************)
(* Properties of function calls in roxi.                                   *)
(***************************************************************************)
\* the variable `n` holds a function without parameters
HoldsThunk(n) ==
  /\ RoxiEnvGet(int.env, n).ok
  /\ RoxiEnvGet(int.env, n).v.t = "Func"
  /\ RoxiEnvGet(int.env, n).v.params = <<>>

\* the step leaves every variable of the program but those of `written`
OnlyWrites(written) ==
  \A x \in (CallNames \cup {"makeCounter", "apply"}) \ written :
    RoxiEnvGet(int'.env, x) = RoxiEnvGet(int.env, x)

\* C39: a call of a function succeeds and its write-back changes no variable
\* but the one the function was read from, whether that is the declared
\* name, a `var` alias, a variable assigned with `=`, or a parameter.
C39_WriteBackToCallee ==
  [][pc <= Len(prog) /\ pc' = pc + 1 =>
       /\ \A n \in CallNames \cup {"makeCounter"} :
            prog[pc] = ExprS(Call(Var(n), <<>>)) /\ HoldsThunk(n) =>
              last' = "Ok" /\ OnlyWrites({n})
       /\ \A n \in CallNames :
            prog[pc] = ExprS(Call(Var("apply"), <<Var(n)>>)) /\ HoldsThunk(n) =>
              last' = "Ok" /\ OnlyWrites({"apply", "h"})]_vars

(***************************************************************************)
(* Properties of the prompt.                                               *)
(***************************************************************************)
\* the line the step has read, with the end of line of the code
LineOfStep ==
  LET whole == IF submitted' # submitted THEN submitted'[Len(submitted')] ELSE buffer'
  IN SubSeq(whole, Len(buffer) + 1, Len(whole))

\* the line without its end
BodyOf(line) == SubSeq(line, 1, Len(line) - 1)

IsBlank(line) == \A i \in 1..Len(BodyOf(line)) : BodyOf(line)[i] = " "

EndsWithSemicolon(line) == EndsWith(line, <<";", "\n">>)

\* C28: a read of a line gives the accumulated input to the interpreter
\* exactly when the indent is 0 and the line ends with `;` or is blank, so a
\* line at indent 0 that is not blank, has no `;` at its end and opens no
\* brace is kept; nothing is given while the indent is above 0; a line ending
\* in `{` adds one to the indent and a line ending in `}` takes one away,
\* never below 0.
C28_SubmitsExactlyWhen ==
  [][ reads' # reads /\ LineOfStep # <<>> =>
        /\ submitted' # submitted <=>
             indent' = 0 /\ (EndsWithSemicolon(LineOfStep) \/ IsBlank(LineOfStep))
        /\ indent = 0 /\ ~IsBlank(LineOfStep) /\ ~EndsWithSemicolon(LineOfStep)
             /\ ~EndsWith(LineOfStep, <<"{", "\n">>) => submitted' = submitted
        /\ indent' > 0 => submitted' = submitted
        /\ indent' =
             IF indent = 0 /\ EndsWithSemicolon(LineOfStep) THEN indent
             ELSE IF EndsWith(LineOfStep, <<"{", "\n">>) THEN indent + 1
             ELSE IF EndsWith(LineOfStep, <<"}", "\n">>) THEN SaturatingDec(indent)
             ELSE indent ]_vars

(***************************************************************************)
(* Properties of the roxi driver.                                          *)
(***************************************************************************)
\* C8: Lox::run never receives Error::Return from Interpreter::interpret,
\* and a top-level statement that is a `return` whose value evaluates
\* ends in a runtime error.
C8_ReturnNeverEscapes ==
  /\ last # "Return"
  /\ \A i \in 1..Len(prog) :
       /\ pc = i + 1
       /\ prog[i].k = "Return"
       /\ RoxiEvaluate(prog[i].e, RoxiNewInterpreter).t = "Ok"
       => last = "Runtime"

====
